---------------------------- MODULE Spec2Model ----------------------------
(***************************************************************************)
(* Pixel Planner (where2place): the palette quantizer, the image pipeline, *)
(* the settings share code and the pointer protocol of App.js, as a state  *)
(* machine.  src/unnamed/part_000 is the current App.js (palette toggles,  *)
(* drag, share codes, persisted settings); src/src/App.js is its earlier   *)
(* revision with the same colour math and pipeline.                        *)
(*                                                                         *)
(* Representation.                                                         *)
(*  - JS arrays are functions on 0..n-1, so that indices are the source's. *)
(*  - A hex colour string "#RRGGBB" is the tuple of its six hex digits.    *)
(*  - Floating point colour math is fixed point: linear light and XYZ in   *)
(*    1/10000, f(t) in 1/1000, Lab in 1/10, truncating; a Lab distance is  *)
(*    kept as its square.                                                  *)
(*  - A text (JSON text, share code) is a sequence of character codes.     *)
(***************************************************************************)
EXTENDS Integers, Sequences, FiniteSets, TLC

(***************************************************************************)
(* Utilities (part_000:20)                                                 *)
(***************************************************************************)
Max(a, b) == IF a >= b THEN a ELSE b
Min(a, b) == IF a <= b THEN a ELSE b

\* A clamp without its upper end.
clampBelow(v, min, max) == Max(min, v)

clamp(v, min, max) == Max(min, Min(max, v))

\* A JS array literal given as a tuple, re-indexed from 0.
Arr(t) == [i \in 0..(Len(t) - 1) |-> t[i + 1]]
Length(a) == Cardinality(DOMAIN a)

(***************************************************************************)
(* Fixed palette (part_000:63-78)                                          *)
(***************************************************************************)
PaletteHex ==
    << <<0,0,0,0,0,0>>, <<1,10,1,10,1,10>>, <<5,4,5,4,5,4>>, <<6,13,6,13,6,13>>,
       <<8,9,8,9,8,9>>, <<11,15,11,15,11,15>>, <<15,15,15,15,15,15>>, <<6,13,0,0,1,10>>,
       <<11,14,0,0,3,9>>, <<15,15,4,5,0,0>>, <<15,15,10,8,0,0>>, <<15,15,13,6,3,5>>,
       <<15,15,15,8,11,8>>, <<0,0,10,3,6,8>>, <<0,0,12,12,7,8>>, <<7,14,14,13,5,6>>,
       <<0,0,7,5,6,15>>, <<0,0,9,14,10,10>>, <<0,0,12,12,12,0>>, <<2,4,5,0,10,4>>,
       <<3,6,9,0,14,10>>, <<5,1,14,9,15,4>>, <<4,9,3,10,12,1>>, <<6,10,5,12,15,15>>,
       <<9,4,11,3,15,15>>, <<8,1,1,14,9,15>>, <<11,4,4,10,12,0>>, <<14,4,10,11,15,15>>,
       <<13,14,1,0,7,15>>, <<15,15,9,9,10,10>>, <<6,13,4,8,2,15>>, <<9,12,6,9,2,6>>,
       <<15,15,11,4,7,0>> >>

PALETTE == Arr(PaletteHex)

BaseSetHex ==
    << <<0,0,0,0,0,0>>, <<1,13,2,9,5,1>>, <<8,9,8,9,8,9>>, <<13,4,13,7,13,9>>,
       <<15,15,15,15,15,15>>, <<6,13,0,0,1,10>>, <<11,14,0,0,3,9>>, <<15,15,4,5,0,0>>,
       <<15,15,10,8,0,0>>, <<15,15,13,6,3,5>>, <<15,15,15,8,11,8>>, <<7,0,3,0,10,0>>,
       <<9,12,4,4,12,0>>, <<14,4,10,11,15,15>>, <<13,14,1,0,7,15>>, <<15,15,9,9,10,10>>,
       <<6,13,4,8,2,15>>, <<9,12,6,9,2,6>>, <<15,15,10,11,7,0>>, <<0,0,10,3,6,8>>,
       <<0,0,12,12,7,8>>, <<7,14,14,13,5,6>>, <<0,0,7,5,6,15>>, <<0,0,9,14,10,10>>,
       <<0,0,12,12,12,0>>, <<5,1,14,9,15,4>>, <<2,4,5,0,10,4>>, <<3,6,9,0,14,10>> >>

\* BASE_SET.includes(hex)
BASE_SET == {BaseSetHex[k] : k \in 1..Len(BaseSetHex)}

PaletteIdx == DOMAIN PALETTE

(***************************************************************************)
(* Colour math (part_000:22-55)                                            *)
(***************************************************************************)
\* parseInt(h, 16) on the six digits, then the three byte fields.
hexToRgb(hex) ==
    LET num == ((((hex[1] * 16 + hex[2]) * 16 + hex[3]) * 16 + hex[4]) * 16
                 + hex[5]) * 16 + hex[6]
    IN  [r |-> (num \div 65536) % 256, g |-> (num \div 256) % 256, b |-> num % 256]

\* srgbToLinear(c) * 10000 for c = 0..255: c/255 <= 0.04045 ? c/12.92
\* : ((c + 0.055)/1.055)^2.4, tabulated (the power is not an integer one).
SrgbLinearTable ==
    << 0, 3, 6, 9, 12, 15, 18, 21, 24, 27, 30, 33, 37, 40, 44, 48,
       52, 56, 60, 65, 70, 75, 80, 86, 91, 97, 103, 110, 116, 123, 130, 137,
       144, 152, 160, 168, 176, 185, 194, 203, 212, 222, 232, 242, 252, 262, 273, 284,
       296, 307, 319, 331, 343, 356, 369, 382, 395, 409, 423, 437, 452, 467, 482, 497,
       513, 529, 545, 561, 578, 595, 612, 630, 648, 666, 685, 704, 723, 742, 762, 782,
       802, 823, 844, 865, 887, 908, 931, 953, 976, 999, 1022, 1046, 1070, 1095, 1119, 1144,
       1170, 1195, 1221, 1248, 1274, 1301, 1329, 1356, 1384, 1413, 1441, 1470, 1500, 1529, 1559, 1590,
       1620, 1651, 1683, 1714, 1746, 1779, 1812, 1845, 1878, 1912, 1946, 1981, 2016, 2051, 2086, 2122,
       2159, 2195, 2232, 2270, 2307, 2346, 2384, 2423, 2462, 2502, 2542, 2582, 2623, 2664, 2705, 2747,
       2789, 2831, 2874, 2918, 2961, 3005, 3050, 3095, 3140, 3185, 3231, 3278, 3325, 3372, 3419, 3467,
       3515, 3564, 3613, 3663, 3712, 3763, 3813, 3864, 3916, 3968, 4020, 4072, 4125, 4179, 4233, 4287,
       4342, 4397, 4452, 4508, 4564, 4621, 4678, 4735, 4793, 4851, 4910, 4969, 5029, 5089, 5149, 5210,
       5271, 5333, 5395, 5457, 5520, 5583, 5647, 5711, 5776, 5841, 5906, 5972, 6038, 6105, 6172, 6240,
       6308, 6376, 6445, 6514, 6584, 6654, 6724, 6795, 6867, 6939, 7011, 7084, 7157, 7231, 7305, 7379,
       7454, 7529, 7605, 7682, 7758, 7835, 7913, 7991, 8070, 8148, 8228, 8308, 8388, 8469, 8550, 8632,
       8714, 8796, 8879, 8963, 9047, 9131, 9216, 9301, 9387, 9473, 9560, 9647, 9734, 9823, 9911, 10000 >>

srgbToLinear(c) == SrgbLinearTable[c + 1]

\* sRGB -> XYZ (D65); the matrix rows in 1/10000.
rgbToXyz(rgb) ==
    LET R == srgbToLinear(rgb.r)
        G == srgbToLinear(rgb.g)
        B == srgbToLinear(rgb.b)
    IN  [x |-> (4125 * R + 3576 * G + 1804 * B) \div 10000,
         y |-> (2127 * R + 7152 * G + 722 * B) \div 10000,
         z |-> (193 * R + 1192 * G + 9503 * B) \div 10000]

\* Math.cbrt on fixed point: the largest n with n^3 <= v, by bisection.
RECURSIVE CbrtSearch(_, _, _)
CbrtSearch(v, lo, hi) ==
    IF lo >= hi THEN lo
    ELSE LET m == (lo + hi + 1) \div 2
         IN  IF m * m * m <= v THEN CbrtSearch(v, m, hi)
                               ELSE CbrtSearch(v, lo, m - 1)

cbrt(v) == CbrtSearch(v, 0, 1100)

\* f(t) of xyzToLab: t > 216/24389 ? cbrt(t) : (841/108) t + 4/29.
\* t in 1/10000 (216/24389 = 0.008856...), the result in 1/1000.
LabF(t) == IF t > 88 THEN cbrt(t * 100000) ELSE (841 * t) \div 1080 + 138

\* XYZ -> Lab (D65), white point (0.95047, 1.0, 1.08883); Lab in 1/10.
xyzToLab(xyz) ==
    LET fx == LabF((xyz.x * 100000) \div 95047)
        fy == LabF(xyz.y)
        fz == LabF((xyz.z * 100000) \div 108883)
    IN  [L |-> (116 * fy - 16000) \div 100, a |-> 5 * (fx - fy), b |-> 2 * (fy - fz)]

rgbToLab(rgb) == xyzToLab(rgbToXyz(rgb))

\* Euclidean Lab distance.  The model keeps the radicand: the code only
\* ever compares distances (d < best), and Math.sqrt is increasing.
labDistance(l1, l2) ==
    LET dL == l1.L - l2.L
        da == l1.a - l2.a
        db == l1.b - l2.b
    IN  dL * dL + da * da + db * db

\* useMemo: computed once for the fixed palette.
paletteRGB == [i \in PaletteIdx |-> hexToRgb(PALETTE[i])]
paletteLab == [i \in PaletteIdx |-> rgbToLab(paletteRGB[i])]

(***************************************************************************)
(* Bounds of the model and the inputs the environment draws from           *)
(***************************************************************************)
\* Image files submitted in one run.
MaxSubmits == 2
\* Largest grid (cells) the runs quantize; larger ones are not explored.
MaxCells == 100
\* The enabled vectors of the quantizer runs switch palette entries
\* 0..MaxPool-1 on and off.
MaxPool == 6
\* Largest pan, in pixels either way on either axis, the runs drag to.
MaxPan == 8
\* Zoom steps the runs take away from a starting zoom level.
MaxZoomSteps == 2
MaxGrowth == 2          \* entries a run may add to the enabled vector

\* The source images the decode collaborator can deliver: width, height
\* and pixels of file f.  File 1 is 200x2, its left half #FF4500 and its
\* right half an off-palette green; file 2 is 4x2 (columns black, white,
\* mid grey, off-palette red); file 3 is an image of zero height (an SVG
\* with height="0" loads with naturalHeight 0).  An image of zero width
\* makes W / aspect infinite and getImageData throw; it is not drawn from.
\* File 4 is 2x1, a black pixel and a white one; the grid runs quantize it.
FileW == <<200, 4, 3, 2>>
FileH == <<2, 2, 0, 1>>
Files == 1..3

FilePixel(f, sx, sy) ==
    CASE f = 1 -> IF sx < 100 THEN [r |-> 255, g |-> 69, b |-> 0]
                              ELSE [r |-> 16, g |-> 200, b |-> 120]
      [] f = 2 -> CASE sx = 0 -> [r |-> 0, g |-> 0, b |-> 0]
                    [] sx = 1 -> [r |-> 255, g |-> 255, b |-> 255]
                    [] sx = 2 -> [r |-> 91, g |-> 91, b |-> 91]
                    [] OTHER -> [r |-> 200, g |-> 30, b |-> 60]
      [] f = 4 -> IF sx = 0 THEN [r |-> 0, g |-> 0, b |-> 0]
                            ELSE [r |-> 255, g |-> 255, b |-> 255]
      [] OTHER -> [r |-> 0, g |-> 0, b |-> 0]

\* RGB inputs of the quantizer runs: palette colours, off-palette colours
\* and colours equidistant from two palette entries.
RGBInputs ==
    { [r |-> 0, g |-> 0, b |-> 0], [r |-> 255, g |-> 255, b |-> 255],
      [r |-> 255, g |-> 69, b |-> 0], [r |-> 91, g |-> 91, b |-> 91],
      [r |-> 126, g |-> 172, b |-> 172], [r |-> 47, g |-> 2, b |-> 0],
      [r |-> 16, g |-> 200, b |-> 120], [r |-> 200, g |-> 30, b |-> 60] }

\* Positions the pixels-across slider is moved to (min 5, max 400).
SliderValues == {5, 6, 100}

\* Palette swatches the runs click.
ToggleIdx == {0, 9}

\* Arguments of the grid-size runs: source width, source height, pixelsAcross.
DimsInputs ==
    [w : {1, 2, 3, 7, 200}, h : {1, 2, 3, 100}, across : {5, 6, 7, 50, 400}]

(***************************************************************************)
(* Text: JS strings as sequences of character codes                        *)
(***************************************************************************)
\* The printable ASCII characters in code order from 32 (space), with a
\* space standing at the places of the double quote (34), the backslash
\* (92) and the grave accent (96), which the literals below do not use.
AsciiPrintable ==
    " ! #$%&'()*+,-./0123456789:;<=>?@ABCDEFGHIJKLMNOPQRSTUVWXYZ[ ]^_ abcdefghijklmnopqrstuvwxyz{|}~"

CharCode(ch) ==
    31 + (CHOOSE k \in 1..Len(AsciiPrintable) :
             /\ SubSeq(AsciiPrintable, k, k) = ch
             /\ \A j \in 1..(k - 1) : SubSeq(AsciiPrintable, j, j) # ch)

\* The character codes of a literal.
Chars(str) == [i \in 1..Len(str) |-> CharCode(SubSeq(str, i, i))]

\* The character codes of a literal of JSON text, which is written with '
\* where the text has a double quote.
Json(str) == [i \in 1..Len(str) |-> IF Chars(str)[i] = 39 THEN 34 ELSE Chars(str)[i]]

\* String.prototype.trim: the text without leading and trailing white space.
trim(text) ==
    LET keep == {i \in 1..Len(text) : text[i] \notin {9, 10, 11, 12, 13, 32}}
    IN  IF keep = {} THEN <<>>
        ELSE SubSeq(text, CHOOSE i \in keep : \A j \in keep : i <= j,
                          CHOOSE i \in keep : \A j \in keep : i >= j)

\* The character at position i, or 0 past the end of the text.
At(text, i) == IF i >= 1 /\ i <= Len(text) THEN text[i] ELSE 0

(***************************************************************************)
(* btoa, atob and the UTF-8 wrapping of part_000:278, 292                  *)
(***************************************************************************)
B64Char(v) ==
    IF v < 26 THEN 65 + v
    ELSE IF v < 52 THEN 71 + v
    ELSE IF v < 62 THEN v - 4
    ELSE IF v = 62 THEN 43 ELSE 47

\* The six bits of a base64 character, or -1 for any other character.
B64Value(c) ==
    IF 65 <= c /\ c <= 90 THEN c - 65
    ELSE IF 97 <= c /\ c <= 122 THEN c - 71
    ELSE IF 48 <= c /\ c <= 57 THEN c + 4
    ELSE IF c = 43 THEN 62
    ELSE IF c = 47 THEN 63 ELSE -1

\* btoa of a binary string (every code below 256, as UTF-8 bytes are):
\* character j of the output, four for every three bytes, = for the bytes
\* a last group lacks.
btoa(bin) ==
    LET n == Len(bin)
        Byte(i) == IF i <= n THEN bin[i] ELSE 0
        CharAt(j) ==
            LET g == 3 * ((j - 1) \div 4)
                b1 == Byte(g + 1)
                b2 == Byte(g + 2)
                b3 == Byte(g + 3)
            IN  CASE j % 4 = 1 -> B64Char(b1 \div 4)
                  [] j % 4 = 2 -> B64Char((b1 % 4) * 16 + (b2 \div 16))
                  [] j % 4 = 3 -> IF g + 2 <= n THEN B64Char((b2 % 16) * 4 + (b3 \div 64))
                                                ELSE 61
                  [] OTHER -> IF g + 3 <= n THEN B64Char(b3 % 64) ELSE 61
    IN  [j \in 1..(4 * ((n + 2) \div 3)) |-> CharAt(j)]

\* The bytes of a base64 body: byte j from the characters of its group of
\* four; the bits left over at the end are discarded.
AtobBytes(body) ==
    LET ByteAt(j) ==
            LET g == 4 * ((j - 1) \div 3)
                v1 == B64Value(body[g + 1])
                v2 == B64Value(body[g + 2])
                v3 == B64Value(body[g + 3])
                v4 == B64Value(body[g + 4])
            IN  CASE j % 3 = 1 -> v1 * 4 + (v2 \div 16)
                  [] j % 3 = 2 -> (v2 % 16) * 16 + (v3 \div 4)
                  [] OTHER -> (v3 % 4) * 64 + v4
    IN  [j \in 1..((Len(body) * 3) \div 4) |-> ByteAt(j)]

NotAsciiWhitespace(c) == c \notin {9, 10, 12, 13, 32}

\* atob (forgiving-base64 decode): ASCII white space is dropped, one or two
\* trailing = go when the length is a multiple of 4, a length of 1 mod 4 or
\* a character outside the alphabet throws, left-over bits are discarded.
atob(text) ==
    LET data == SelectSeq(text, NotAsciiWhitespace)
        n == Len(data)
        body == IF n % 4 = 0 /\ n >= 1 /\ data[n] = 61
                THEN IF data[n - 1] = 61 THEN SubSeq(data, 1, n - 2)
                                         ELSE SubSeq(data, 1, n - 1)
                ELSE data
    IN  IF Len(body) % 4 = 1 \/ \E k \in 1..Len(body) : B64Value(body[k]) = -1
        THEN [ok |-> FALSE, v |-> <<>>]
        ELSE [ok |-> TRUE, v |-> AtobBytes(body)]

IsCode(c) == c >= 0

\* unescape(encodeURIComponent(s)): the UTF-8 bytes of s (code points
\* below 0x800; the texts here are ASCII): one or two bytes for each.
Utf8Encode(text) ==
    LET Slot(j) ==
            LET c == text[(j + 1) \div 2]
            IN  IF j % 2 = 1 THEN (IF c < 128 THEN c ELSE 192 + (c \div 64))
                             ELSE (IF c < 128 THEN -1 ELSE 128 + (c % 64))
    IN  SelectSeq([j \in 1..(2 * Len(text)) |-> Slot(j)], IsCode)

\* decodeURIComponent(escape(bin)): the text whose UTF-8 bytes bin is; a
\* byte sequence that is not UTF-8 throws (URIError).  One- and two-byte
\* sequences are decoded; the texts here have no byte from 0xE0 up.
Utf8Decode(bin) ==
    LET Lead(i) == 194 <= At(bin, i) /\ At(bin, i) <= 223
        Trail(i) == 128 <= At(bin, i) /\ At(bin, i) <= 191
        Point(i) == IF bin[i] < 128 THEN bin[i]
                    ELSE IF Lead(i) THEN (bin[i] - 192) * 64 + bin[i + 1] - 128
                    ELSE -1
    IN  IF \A i \in 1..Len(bin) :
               \/ bin[i] < 128
               \/ Lead(i) /\ Trail(i + 1)
               \/ Trail(i) /\ Lead(i - 1)
        THEN [ok |-> TRUE, v |-> SelectSeq([i \in 1..Len(bin) |-> Point(i)], IsCode)]
        ELSE [ok |-> FALSE, v |-> <<>>]

(***************************************************************************)
(* JSON.stringify and JSON.parse (part_000:277, 293)                       *)
(***************************************************************************)
RECURSIVE Digits(_)
Digits(n) == IF n < 10 THEN <<48 + n>> ELSE Append(Digits(n \div 10), 48 + (n % 10))

\* A number text that loses the sign.
NumberToStringUnsigned(n) == Digits(IF n < 0 THEN -n ELSE n)

\* String(n) of an integer.
NumberToString(n) == IF n < 0 THEN <<45>> \o Digits(-n) ELSE Digits(n)

\* A JSON string literal: quotes, with " and \ escaped (the strings here
\* have no control characters).
RECURSIVE QuoteFrom(_, _)
QuoteFrom(s, i) ==
    IF i > Len(s) THEN <<34>>
    ELSE (IF s[i] \in {34, 92} THEN <<92, s[i]>> ELSE <<s[i]>>) \o QuoteFrom(s, i + 1)

\* JSON.stringify of a state value: a number or a string.
StringifyValue(v) == IF v.t = "number" THEN NumberToString(v.n) ELSE <<34>> \o QuoteFrom(v.s, 1)

\* JSON.stringify({ v: 1, pixelsAcross, genesisX, genesisY, zoom })
StringifyPayload(across, gx, gy, z) ==
    Json("{'v':1,'pixelsAcross':") \o NumberToString(across)
        \o Json(",'genesisX':") \o StringifyValue(gx)
        \o Json(",'genesisY':") \o StringifyValue(gy)
        \o Json(",'zoom':") \o NumberToString(z) \o Json("}")

\* Parsed JSON values.  A number is n / d with d a power of ten.
JsonNumber(n, d) == [t |-> "number", n |-> n, d |-> d, s |-> <<>>, members |-> <<>>]
JsonString(s) == [t |-> "string", n |-> 0, d |-> 1, s |-> s, members |-> <<>>]
JsonBoolean(b) == [t |-> "boolean", n |-> IF b THEN 1 ELSE 0, d |-> 1, s |-> <<>>, members |-> <<>>]
JsonNull == [t |-> "null", n |-> 0, d |-> 1, s |-> <<>>, members |-> <<>>]
JsonArray(items) == [t |-> "array", n |-> 0, d |-> 1, s |-> <<>>, members |-> items]
JsonObject(members) == [t |-> "object", n |-> 0, d |-> 1, s |-> <<>>, members |-> members]
undefined == [t |-> "undefined", n |-> 0, d |-> 1, s |-> <<>>, members |-> <<>>]

\* A parse step's result: the value and the position after it, or a
\* SyntaxError.
Parsed(v, i) == [ok |-> TRUE, v |-> v, i |-> i]
SyntaxError == [ok |-> FALSE, v |-> undefined, i |-> 0]

RECURSIVE SkipWs(_, _)
SkipWs(text, i) == IF At(text, i) \in {9, 10, 13, 32} THEN SkipWs(text, i + 1) ELSE i

IsDigit(c) == 48 <= c /\ c <= 57

\* The first position from i on that holds no digit.
RECURSIVE DigitsEnd(_, _)
DigitsEnd(text, i) == IF IsDigit(At(text, i)) THEN DigitsEnd(text, i + 1) ELSE i

\* The value of the digits text[a..b], and ten to the k.
RECURSIVE DigitsValue(_, _, _)
DigitsValue(text, a, b) ==
    IF a > b THEN 0 ELSE DigitsValue(text, a, b - 1) * 10 + (text[b] - 48)

RECURSIVE Pow10(_)
Pow10(k) == IF k = 0 THEN 1 ELSE 10 * Pow10(k - 1)

\* number: -? (0 | [1-9][0-9]*) (. [0-9]+)?   Exponents are not read: the
\* texts here have none.  The digits text[a..b-1] are the integer part.
Fraction(text, a, b, c) ==
    IF c = b + 1 THEN SyntaxError
    ELSE Parsed(JsonNumber(DigitsValue(text, a, b - 1) * Pow10(c - (b + 1))
                               + DigitsValue(text, b + 1, c - 1),
                           Pow10(c - (b + 1))), c)

IntegerPart(text, a, b) ==
    IF b = a \/ (At(text, a) = 48 /\ b > a + 1) THEN SyntaxError
    ELSE IF At(text, b) = 46 THEN Fraction(text, a, b, DigitsEnd(text, b + 1))
    ELSE Parsed(JsonNumber(DigitsValue(text, a, b - 1), 1), b)

Negated(r) == IF r.ok THEN Parsed(JsonNumber(-r.v.n, r.v.d), r.i) ELSE r

ParseNumber(text, i) ==
    IF At(text, i) = 45 THEN Negated(IntegerPart(text, i + 1, DigitsEnd(text, i + 1)))
    ELSE IntegerPart(text, i, DigitsEnd(text, i))

\* The text of a string's characters, its escapes replaced.  \u escapes
\* are not read: the texts here have none.
RECURSIVE Unescape(_, _)
Unescape(raw, i) ==
    LET e == At(raw, i + 1)
        ch == CASE e \in {34, 92, 47} -> e
                [] e = 98 -> 8
                [] e = 102 -> 12
                [] e = 110 -> 10
                [] e = 114 -> 13
                [] e = 116 -> 9
                [] OTHER -> -1
        rest == Unescape(raw, IF raw[i] = 92 THEN i + 2 ELSE i + 1)
    IN  IF i > Len(raw) THEN [ok |-> TRUE, v |-> <<>>]
        ELSE IF raw[i] = 92 /\ ch = -1 THEN [ok |-> FALSE, v |-> <<>>]
        ELSE IF ~rest.ok THEN rest
        ELSE [ok |-> TRUE, v |-> <<IF raw[i] = 92 THEN ch ELSE raw[i]>> \o rest.v]

Unescaped(str, next) == IF str.ok THEN Parsed(str.v, next) ELSE SyntaxError

\* The string of the raw characters between the quotes: it holds no
\* control character.
StringOf(raw, next) ==
    IF \E k \in 1..Len(raw) : raw[k] < 32 THEN SyntaxError
    ELSE IF \A k \in 1..Len(raw) : raw[k] # 92 THEN Parsed(raw, next)
    ELSE Unescaped(Unescape(raw, 1), next)

\* The quotes from position i on that an even number of backslashes
\* precedes.
ClosingQuotes(text, i) ==
    {j \in i..Len(text) :
        /\ text[j] = 34
        /\ Cardinality({k \in i..(j - 1) : \A m \in k..(j - 1) : text[m] = 92}) % 2 = 0}

StringUpTo(text, i, closing) ==
    IF closing = {} THEN SyntaxError
    ELSE StringOf(SubSeq(text, i, (CHOOSE j \in closing : \A o \in closing : j <= o) - 1),
                  (CHOOSE j \in closing : \A o \in closing : j <= o) + 1)

\* A string whose opening quote is at position i - 1: it runs up to the
\* first closing quote.
StringBody(text, i) == StringUpTo(text, i, ClosingQuotes(text, i))

\* text has the characters of word at position i.
HasWord(text, i, word) == \A k \in 1..Len(word) : At(text, i + k - 1) = word[k]

\* The literal names.
Word == [true |-> Chars("true"), false |-> Chars("false"), null |-> Chars("null")]

RECURSIVE ParseValue(_, _)
RECURSIVE ParseMembers(_, _, _)
RECURSIVE ParseElements(_, _, _)

\* After a member: } ends the object, a comma brings the next key.
MembersNext(text, next, all) ==
    IF At(text, next) = 125 THEN Parsed(JsonObject(all), next + 1)
    ELSE IF At(text, next) = 44 THEN ParseMembers(text, SkipWs(text, next + 1), all)
    ELSE SyntaxError

MembersAfterValue(text, k, val, acc) ==
    IF ~val.ok THEN SyntaxError
    ELSE MembersNext(text, SkipWs(text, val.i), Append(acc, [k |-> k, v |-> val.v]))

MembersAtColon(text, k, colon, acc) ==
    IF At(text, colon) # 58 THEN SyntaxError
    ELSE MembersAfterValue(text, k, ParseValue(text, colon + 1), acc)

MembersAfterKey(text, key, acc) ==
    IF ~key.ok THEN SyntaxError
    ELSE MembersAtColon(text, key.v, SkipWs(text, key.i), acc)

\* The members of an object from position i (a key is due), after acc.
ParseMembers(text, i, acc) ==
    IF At(text, i) # 34 THEN SyntaxError
    ELSE MembersAfterKey(text, StringBody(text, i + 1), acc)

ElementsNext(text, next, all) ==
    IF At(text, next) = 93 THEN Parsed(JsonArray(all), next + 1)
    ELSE IF At(text, next) = 44 THEN ParseElements(text, next + 1, all)
    ELSE SyntaxError

ElementsAfterValue(text, val, acc) ==
    IF ~val.ok THEN SyntaxError
    ELSE ElementsNext(text, SkipWs(text, val.i), Append(acc, val.v))

\* The elements of an array from position i (a value is due), after acc.
ParseElements(text, i, acc) == ElementsAfterValue(text, ParseValue(text, i), acc)

StringValue(str) == IF str.ok THEN Parsed(JsonString(str.v), str.i) ELSE SyntaxError

\* The value whose first character c is at position j; k is the position
\* of what follows an opening bracket.
ValueAt(text, j, c, k) ==
    IF c = 123
    THEN IF At(text, k) = 125 THEN Parsed(JsonObject(<<>>), k + 1)
                              ELSE ParseMembers(text, k, <<>>)
    ELSE IF c = 91
    THEN IF At(text, k) = 93 THEN Parsed(JsonArray(<<>>), k + 1)
                             ELSE ParseElements(text, k, <<>>)
    ELSE IF c = 34 THEN StringValue(StringBody(text, j + 1))
    ELSE IF c = 45 \/ IsDigit(c) THEN ParseNumber(text, j)
    ELSE IF HasWord(text, j, Word.true) THEN Parsed(JsonBoolean(TRUE), j + 4)
    ELSE IF HasWord(text, j, Word.false) THEN Parsed(JsonBoolean(FALSE), j + 5)
    ELSE IF HasWord(text, j, Word.null) THEN Parsed(JsonNull, j + 4)
    ELSE SyntaxError

ValueFrom(text, j) == ValueAt(text, j, At(text, j), SkipWs(text, j + 1))

ParseValue(text, i) == ValueFrom(text, SkipWs(text, i))

\* JSON.parse: one value, then nothing but white space.
Complete(text, r) == IF r.ok /\ SkipWs(text, r.i) = Len(text) + 1 THEN r ELSE SyntaxError

JsonParse(text) == Complete(text, ParseValue(text, 1))

\* data[key]: the last member of that name; undefined when there is none
\* or data is no object.
MembersNamed(data, key) == {m \in 1..Len(data.members) : data.members[m].k = key}

LastOf(data, at) ==
    IF at = {} THEN undefined ELSE data.members[CHOOSE m \in at : \A o \in at : m >= o].v

Get(data, key) ==
    IF data.t # "object" THEN undefined ELSE LastOf(data, MembersNamed(data, key))

typeof(v) ==
    IF v.t \in {"object", "array", "null"} THEN "object" ELSE v.t

\* !v
Falsy(v) ==
    \/ v.t \in {"null", "undefined"}
    \/ v.t \in {"number", "boolean"} /\ v.n = 0
    \/ v.t = "string" /\ v.s = <<>>

\* Math.round of a parsed number: the nearest integer, halves upwards.
MathRound(v) == (2 * v.n + v.d) \div (2 * v.d)

\* The property names applySettings and the persisted settings use.
Key ==
    [v |-> Chars("v"), pixelsAcross |-> Chars("pixelsAcross"),
     genesisX |-> Chars("genesisX"), genesisY |-> Chars("genesisY"), zoom |-> Chars("zoom"),
     paletteEnabled |-> Chars("paletteEnabled"), lockPalette |-> Chars("lockPalette")]

(***************************************************************************)
(* State (part_000:82-106)                                                 *)
(***************************************************************************)
VARIABLES
    requests,        \* the Image objects created so far: file and decode status
    img,             \* the current source image: an index of requests, or null
    pixelsAcross,
    zoom,
    genesisX,        \* a JS value: a number, or the string '' or '-' while typing
    genesisY,
    gridW,
    gridH,
    gridColors,      \* flat array of hex strings
    hover,
    dragOffset,
    isDragging,
    dragStart,
    pointer,         \* where the mouse pointer is, in client coordinates
    lockPixelation,
    lockGenesis,
    shareCode,       \* the text of the share input
    paletteEnabled,
    lockPalette,
    alert,           \* the last handler raised the "Invalid or unsupported code" notice
    store,           \* localStorage 'w2p_settings': whether the startup effect has
                     \* read it, whether its text parses, and the JSON value it holds
    queued,          \* the state updates the load effect asked for, until the
                     \* render that applies them
    exported,        \* history: the settings exportSettings encoded into shareCode,
                     \* <<>> once the text is typed over
    arg,             \* function runs: the argument passed
    ret              \* function runs: the value returned (<<>>: not called yet)

null == 0
Infinity == 2147483647

imageVars == <<requests, img>>
settingsVars == <<pixelsAcross, zoom, genesisX, genesisY>>
gridVars == <<gridW, gridH, gridColors>>
pointerVars == <<hover, dragOffset, isDragging, dragStart, pointer>>
lockVars == <<lockPixelation, lockGenesis>>
shareVars == <<shareCode, exported>>
paletteVars == <<paletteEnabled, lockPalette>>
harnessVars == <<arg, ret>>
vars == <<imageVars, settingsVars, gridVars, pointerVars, lockVars, shareVars,
          paletteVars, alert, store, queued, harnessVars>>

\* JS values that are a number or a string.
JsNumber(n) == [t |-> "number", n |-> n, s |-> <<>>]
JsString(s) == [t |-> "string", n |-> 0, s |-> s]

(***************************************************************************)
(* Persisted settings: the save effect (part_000:335-347)                  *)
(***************************************************************************)
\* The JSON value of a genesis state value.
ToJson(v) == IF v.t = "number" THEN JsonNumber(v.n, 1) ELSE JsonString(v.s)

\* What JSON.stringify(toSave) parses back to.
Saved(across, gx, gy, z, enabled, lock) ==
    JsonObject(<< [k |-> Key.pixelsAcross, v |-> JsonNumber(across, 1)],
                  [k |-> Key.genesisX, v |-> ToJson(gx)],
                  [k |-> Key.genesisY, v |-> ToJson(gy)],
                  [k |-> Key.zoom, v |-> JsonNumber(z, 1)],
                  [k |-> Key.paletteEnabled,
                   v |-> JsonArray([i \in 1..Cardinality(DOMAIN enabled) |->
                                       JsonBoolean(enabled[i - 1])])],
                  [k |-> Key.lockPalette, v |-> JsonBoolean(lock)] >>)

\* A save that takes lockPalette from the render before the change.
SaveEffectStaleLock ==
    store' = [read |-> TRUE, ok |-> TRUE,
              data |-> Saved(pixelsAcross', genesisX', genesisY', zoom', paletteEnabled',
                             lockPalette)]

\* The save effect, run after a render in which one of its six
\* dependencies changed: localStorage.setItem of the current values.
SaveEffect ==
    store' = [read |-> TRUE, ok |-> TRUE,
              data |-> Saved(pixelsAcross', genesisX', genesisY', zoom', paletteEnabled',
                             lockPalette')]

(***************************************************************************)
(* Quantizer (part_000:116-133)                                            *)
(***************************************************************************)
RECURSIVE EnabledFrom(_, _)
EnabledFrom(enabled, i) ==
    IF i >= Length(enabled) THEN <<>>
    ELSE IF enabled[i] THEN <<i>> \o EnabledFrom(enabled, i + 1)
                       ELSE EnabledFrom(enabled, i + 1)

\* for (i = 0; i < paletteEnabled.length; i++) if (paletteEnabled[i]) arr.push(i)
enabledIndices(enabled) == EnabledFrom(enabled, 0)

\* [...PALETTE.keys()]
PaletteKeys == [k \in 1..Length(PALETTE) |-> k - 1]

\* Variants of the scan and of pickNearest that the properties below must
\* tell from the code's: a scan that replaces the best on d <= best, a
\* pickNearest that scans the whole palette whatever is enabled, and one
\* without the empty-pool fallback.
RECURSIVE PickScanLastWins(_, _, _, _, _)
PickScanLastWins(pool, lab, k, best, idx) ==
    IF k > Len(pool) THEN idx
    ELSE LET i == pool[k]
             d == labDistance(lab, paletteLab[i])
         IN  IF d <= best THEN PickScanLastWins(pool, lab, k + 1, d, i)
                          ELSE PickScanLastWins(pool, lab, k + 1, best, idx)

\* The scan of pickNearest from position k of the pool (a sequence, so
\* pool[k] here is pool[k-1] there): the best distance and its index so far.
RECURSIVE PickScan(_, _, _, _, _)
PickScan(pool, lab, k, best, idx) ==
    IF k > Len(pool) THEN idx
    ELSE LET i == pool[k]
             d == labDistance(lab, paletteLab[i])
         IN  IF d < best THEN PickScan(pool, lab, k + 1, d, i)
                         ELSE PickScan(pool, lab, k + 1, best, idx)

pickNearestWholePalette(rgb, enabledIdx) ==
    PALETTE[PickScan(PaletteKeys, rgbToLab(rgb), 1, Infinity, 0)]

pickNearestNoFallback(rgb, enabledIdx) ==
    PALETTE[PickScan(enabledIdx, rgbToLab(rgb), 1, Infinity, 0)]

pickNearest(rgb, enabledIdx) ==
    LET lab == rgbToLab(rgb)
        pool == IF Len(enabledIdx) # 0 THEN enabledIdx ELSE PaletteKeys
    IN  PALETTE[PickScan(pool, lab, 1, Infinity, 0)]

(***************************************************************************)
(* Image pipeline (part_000:135-174)                                       *)
(***************************************************************************)
naturalWidth(image) == FileW[requests[image].file]
naturalHeight(image) == FileH[requests[image].file]

\* A division that truncates instead of rounding.
RoundDivDown(p, q) == p \div q

\* Math.round(p / q) for q > 0: halves round up.
RoundDiv(p, q) == (2 * p + q) \div (2 * q)

\* Lines 152-154: aspect = naturalWidth / naturalHeight, W, H.  W / aspect
\* is W * h / w; a zero height makes aspect infinite and W / aspect zero.
\* pixelsAcross is an integer here, which Math.round leaves as it is.
TargetW(across) == Max(1, across)
TargetH(w, h, across) ==
    IF h = 0 THEN Max(1, 0) ELSE Max(1, RoundDiv(TargetW(across) * h, w))

\* drawImage(img, 0, 0, W, H) without smoothing, then getImageData: target
\* pixel (x, y) is the source pixel under its centre.  An image of zero
\* width or height is not drawn, which leaves the canvas transparent black.
SampleAt(f, x, y, W, H) ==
    IF FileW[f] = 0 \/ FileH[f] = 0 THEN [r |-> 0, g |-> 0, b |-> 0]
    ELSE FilePixel(f, ((2 * x + 1) * FileW[f]) \div (2 * W),
                      ((2 * y + 1) * FileH[f]) \div (2 * H))

\* A grid filled column by column.
QuantizedColorsColumnMajor(f, W, H, enabledIdx) ==
    [c \in 0..(W * H - 1) |-> pickNearest(SampleAt(f, c \div H, c % H, W, H), enabledIdx)]

\* colors[y * W + x] = pickNearest({r, g, b}) for every target pixel.
QuantizedColors(f, W, H, enabledIdx) ==
    [c \in 0..(W * H - 1) |-> pickNearest(SampleAt(f, c % W, c \div W, W, H), enabledIdx)]

\* processImage, as the effect that follows every render in which img,
\* pixelsAcross or the enabled pool changed: it reads the new values.
processImage ==
    IF img' = null THEN UNCHANGED gridVars
    ELSE LET f == requests'[img'].file
             W == TargetW(pixelsAcross')
             H == TargetH(FileW[f], FileH[f], pixelsAcross')
         IN  /\ gridW' = W
             /\ gridH' = H
             /\ gridColors' = QuantizedColors(f, W, H, enabledIndices(paletteEnabled'))

\* The grid a run would have to quantize for file f at this width.
Cells(f, across) == TargetW(across) * TargetH(FileW[f], FileH[f], across)

\* loadImageFromFile: a new Image whose onload is still to come.
loadImageFromFile(f) ==
    /\ store.read
    /\ ~queued.pending
    /\ Len(requests) < MaxSubmits
    /\ requests' = Append(requests, [file |-> f, status |-> "pending"])
    /\ alert' = FALSE
    /\ UNCHANGED <<img, settingsVars, gridVars, pointerVars, lockVars, shareVars, paletteVars,
                   harnessVars, queued>>
    /\ UNCHANGED store

\* image.onload = () => setImg(image), then the processImage effect.
ImageOnload(k) ==
    /\ k \in DOMAIN requests
    /\ requests[k].status = "pending"
    /\ Cells(requests[k].file, pixelsAcross) <= MaxCells
    /\ requests' = [requests EXCEPT ![k].status = "loaded"]
    /\ img' = k
    /\ alert' = FALSE
    /\ UNCHANGED <<settingsVars, pointerVars, lockVars, shareVars, paletteVars, harnessVars, queued>>
    /\ processImage
    /\ UNCHANGED store

\* The decode fails: no onload ever fires, and the code sets no onerror.
ImageOnerror(k) ==
    /\ k \in DOMAIN requests
    /\ requests[k].status = "pending"
    /\ requests' = [requests EXCEPT ![k].status = "failed"]
    /\ alert' = FALSE
    /\ UNCHANGED <<img, settingsVars, gridVars, pointerVars, lockVars, shareVars, paletteVars,
                   harnessVars, queued>>
    /\ UNCHANGED store

(***************************************************************************)
(* Initial state: the useState defaults (part_000:82-106) after the mount  *)
(* effect that loads the persisted settings (part_000:320-333)             *)
(***************************************************************************)
\* useState(() => PALETTE.map(hex => BASE_SET.includes(hex)))
DefaultPaletteEnabled == [i \in PaletteIdx |-> PALETTE[i] \in BASE_SET]

\* What localStorage 'w2p_settings' parses to: nothing, or a saved object.
NoSaved ==
    [present |-> FALSE, pixelsAcross |-> 100, genesisX |-> 0, genesisY |-> 0,
     zoom |-> 8, paletteEnabled |-> DefaultPaletteEnabled, lockPalette |-> FALSE]

SavedWith(across, enabled) ==
    [NoSaved EXCEPT !.present = TRUE, !.pixelsAcross = across,
                    !.paletteEnabled = enabled]

StoredSettings == {NoSaved, SavedWith(5, DefaultPaletteEnabled)}

\* The enabled vectors of the quantizer runs: every choice among the first
\* MaxPool entries, the default (base set) and the full set.
EnabledVectors ==
    { [i \in PaletteIdx |-> i \in S] : S \in SUBSET (0..(MaxPool - 1)) }
        \cup {DefaultPaletteEnabled, [i \in PaletteIdx |-> TRUE]}

\* The useState values of the component with the Image objects reqs
\* created and image the current one, before any other input.
\* No state update waits for a render.
NoUpdates ==
    [pending |-> FALSE, pixelsAcross |-> 100, genesisX |-> JsNumber(0),
     genesisY |-> JsNumber(0), zoom |-> 8, paletteEnabled |-> DefaultPaletteEnabled,
     lockPalette |-> FALSE]

ComponentState(saved, reqs, image) ==
    /\ requests = reqs
    /\ img = image
    /\ pixelsAcross = IF saved.present THEN clamp(saved.pixelsAcross, 5, 400) ELSE 100
    /\ zoom = IF saved.present THEN clamp(saved.zoom, 1, 64) ELSE 8
    /\ genesisX = JsNumber(IF saved.present THEN saved.genesisX ELSE 0)
    /\ genesisY = JsNumber(IF saved.present THEN saved.genesisY ELSE 0)
    /\ LET across == IF saved.present THEN clamp(saved.pixelsAcross, 5, 400) ELSE 100
           enabled == IF saved.present THEN saved.paletteEnabled
                                       ELSE DefaultPaletteEnabled
       IN  IF image = null
           THEN gridW = 0 /\ gridH = 0 /\ gridColors = <<>>
           ELSE /\ gridW = TargetW(across)
                /\ gridH = TargetH(FileW[reqs[image].file], FileH[reqs[image].file], across)
                /\ gridColors = QuantizedColors(reqs[image].file, gridW, gridH,
                                                enabledIndices(enabled))
    /\ hover = [x |-> -1, y |-> -1]
    /\ dragOffset = [x |-> 0, y |-> 0]
    /\ isDragging = FALSE
    /\ dragStart = [x |-> 0, y |-> 0]
    /\ pointer = [x |-> 0, y |-> 0]
    /\ lockPixelation = FALSE
    /\ lockGenesis = FALSE
    /\ shareCode = <<>>
    /\ exported = <<>>
    /\ paletteEnabled = IF saved.present THEN saved.paletteEnabled
                                         ELSE DefaultPaletteEnabled
    /\ lockPalette = IF saved.present THEN saved.lockPalette ELSE FALSE
    /\ alert = FALSE
    /\ queued = NoUpdates

\* The mounted component after its effects: the store holds what the save
\* effect wrote.
MountedState(saved, reqs, image) ==
    /\ ComponentState(saved, reqs, image)
    /\ store = [read |-> TRUE, ok |-> TRUE,
                data |-> Saved(pixelsAcross, genesisX, genesisY, zoom, paletteEnabled,
                               lockPalette)]

\* The first render, before the effects: the defaults, and whatever
\* localStorage holds.
FirstRender(stored) ==
    /\ ComponentState(NoSaved, <<>>, null)
    /\ store = stored

\* Nothing uploaded yet.
InitState(saved) == MountedState(saved, <<>>, null)

\* File f was uploaded, decoded and quantized.
LoadedState(saved, f) ==
    MountedState(saved, <<[file |-> f, status |-> "loaded"]>>, 1)

Init ==
    /\ \E saved \in StoredSettings : InitState(saved)
    /\ arg = <<>>
    /\ ret = <<>>

(***************************************************************************)
(* Startup: the load effect, then the save effect (part_000:320-347)       *)
(***************************************************************************)
\* saved.key inside "if (saved && typeof saved === 'object')"; undefined
\* when JSON.parse threw or the test fails.
SavedField(stored, key) ==
    IF stored.ok /\ ~Falsy(stored.data) /\ typeof(stored.data) = "object"
    THEN Get(stored.data, key)
    ELSE undefined

\* A setting after its line of applySettings: the field's rounded value
\* when typeof says number, else what it was.
GenesisOr(field, old) == IF typeof(field) = "number" THEN JsNumber(MathRound(field)) ELSE old

\* The rounded field without the clamp.
RoundedOr(field, lo, hi, old) ==
    IF typeof(field) = "number" THEN MathRound(field) ELSE old

\* if (typeof field === 'number') set(clamp(Math.round(field), lo, hi))
ClampedOr(field, lo, hi, old) ==
    IF typeof(field) = "number" THEN clamp(MathRound(field), lo, hi) ELSE old

\* Array.isArray(field) && field.length === PALETTE.length, then
\* field.map(Boolean)
PaletteOr(field, old) ==
    IF field.t = "array" /\ Len(field.members) = Length(PALETTE)
    THEN [i \in PaletteIdx |-> ~Falsy(field.members[i + 1])]
    ELSE old

\* if (typeof field === 'boolean') setLockPalette(field)
BooleanOr(field, old) == IF typeof(field) = "boolean" THEN field.n = 1 ELSE old

\* The two mount effects and the render that follows them.
LoadPersisted ==
    /\ ~store.read
    /\ pixelsAcross' = ClampedOr(SavedField(store, Key.pixelsAcross), 5, 400, pixelsAcross)
    /\ genesisX' = GenesisOr(SavedField(store, Key.genesisX), genesisX)
    /\ genesisY' = GenesisOr(SavedField(store, Key.genesisY), genesisY)
    /\ zoom' = ClampedOr(SavedField(store, Key.zoom), 1, 64, zoom)
    /\ paletteEnabled' = PaletteOr(SavedField(store, Key.paletteEnabled), paletteEnabled)
    /\ lockPalette' = BooleanOr(SavedField(store, Key.lockPalette), lockPalette)
    /\ alert' = FALSE
    /\ UNCHANGED <<imageVars, gridVars, pointerVars, lockVars, shareVars, harnessVars, queued>>
    /\ SaveEffect

\* The updates the load effect asks for when the item it reads is item.
Requested(item) ==
    [pending |-> TRUE,
     pixelsAcross |-> ClampedOr(SavedField(item, Key.pixelsAcross), 5, 400, pixelsAcross),
     genesisX |-> GenesisOr(SavedField(item, Key.genesisX), genesisX),
     genesisY |-> GenesisOr(SavedField(item, Key.genesisY), genesisY),
     zoom |-> ClampedOr(SavedField(item, Key.zoom), 1, 64, zoom),
     paletteEnabled |-> PaletteOr(SavedField(item, Key.paletteEnabled), paletteEnabled),
     lockPalette |-> BooleanOr(SavedField(item, Key.lockPalette), lockPalette)]

\* What the save effect of the current render writes.
SavedNow ==
    [read |-> TRUE, ok |-> TRUE,
     data |-> Saved(pixelsAcross, genesisX, genesisY, zoom, paletteEnabled, lockPalette)]

\* Mount effects with the save effect ahead of the load effect: the load
\* reads what the save just wrote.
MountEffectsSaveFirst ==
    /\ ~store.read
    /\ ~queued.pending
    /\ store' = SavedNow
    /\ queued' = Requested(SavedNow)
    /\ alert' = FALSE
    /\ UNCHANGED <<imageVars, settingsVars, gridVars, pointerVars, lockVars, shareVars,
                   paletteVars, harnessVars>>

\* The effects of the first render, in the order of their declaration: the
\* load effect reads the item and calls the setters, whose updates wait for
\* the next render; then the save effect writes the values of the first
\* render, the defaults, over the item.
MountEffects ==
    /\ ~store.read
    /\ ~queued.pending
    /\ queued' = Requested(store)
    /\ store' = SavedNow
    /\ alert' = FALSE
    /\ UNCHANGED <<imageVars, settingsVars, gridVars, pointerVars, lockVars, shareVars,
                   paletteVars, harnessVars>>

\* The render that applies the updates of the load effect, and the save
\* effect after it, which runs when one of its six dependencies changed.
\* (A palette array set anew counts as changed also when its items are the
\* same; the text written then is the one already stored.)
Settle ==
    /\ queued.pending
    /\ pixelsAcross' = queued.pixelsAcross
    /\ genesisX' = queued.genesisX
    /\ genesisY' = queued.genesisY
    /\ zoom' = queued.zoom
    /\ paletteEnabled' = queued.paletteEnabled
    /\ lockPalette' = queued.lockPalette
    /\ queued' = NoUpdates
    /\ alert' = FALSE
    /\ UNCHANGED <<imageVars, gridVars, pointerVars, lockVars, shareVars, harnessVars>>
    /\ IF <<pixelsAcross', genesisX', genesisY', zoom', paletteEnabled', lockPalette'>>
            # <<pixelsAcross, genesisX, genesisY, zoom, paletteEnabled, lockPalette>>
       THEN SaveEffect
       ELSE UNCHANGED store

(***************************************************************************)
(* Controls shown once an image is loaded (part_000:652, 1001)             *)
(***************************************************************************)
\* The pixels-across slider (part_000:764-772), disabled while locked.
SetPixelsAcross(v) ==
    /\ img # null
    /\ ~lockPixelation
    /\ Cells(requests[img].file, v) <= MaxCells
    /\ pixelsAcross' = v
    /\ alert' = FALSE
    /\ UNCHANGED <<imageVars, zoom, genesisX, genesisY, pointerVars, lockVars, shareVars,
                   paletteVars, harnessVars, queued>>
    /\ processImage
    /\ SaveEffect

\* const next = [...prev]; next[idx] = !next[idx]; return next.  An index
\* equal to the length appends !undefined, which is true; a negative index
\* sets a property and leaves the elements.  (An index beyond the length
\* would leave holes before it; the runs draw none.)
Toggled(prev, idx) ==
    IF idx \in DOMAIN prev THEN [prev EXCEPT ![idx] = ~prev[idx]]
    ELSE IF idx = Length(prev) THEN [i \in 0..idx |-> IF i = idx THEN TRUE ELSE prev[i]]
    ELSE prev

\* A toggle that does not look at the lock.
toggleColourUnlocked(idx) ==
    /\ img # null
    /\ paletteEnabled' = Toggled(paletteEnabled, idx)
    /\ alert' = FALSE
    /\ UNCHANGED <<imageVars, settingsVars, pointerVars, lockVars, shareVars, lockPalette,
                   harnessVars, queued>>
    /\ processImage
    /\ SaveEffect

\* A toggle after which the grid is not recomputed.
toggleColourStaleGrid(idx) ==
    /\ img # null
    /\ paletteEnabled' = IF lockPalette THEN paletteEnabled ELSE Toggled(paletteEnabled, idx)
    /\ alert' = FALSE
    /\ UNCHANGED <<imageVars, settingsVars, gridVars, pointerVars, lockVars, shareVars,
                   lockPalette, harnessVars, queued>>
    /\ SaveEffect

\* Palette helpers (part_000:360-375).
toggleColour(idx) ==
    /\ img # null
    /\ paletteEnabled' = IF lockPalette THEN paletteEnabled ELSE Toggled(paletteEnabled, idx)
    /\ alert' = FALSE
    /\ UNCHANGED <<imageVars, settingsVars, pointerVars, lockVars, shareVars, lockPalette,
                   harnessVars, queued>>
    /\ processImage
    /\ SaveEffect

\* toggleColour called with any index, as a function of the component and
\* not through the palette panel (which is rendered with an image only and
\* passes the indices of PALETTE): no image is shown, and processImage
\* returns at once.
toggleColourCall(idx) ==
    /\ img = null
    /\ idx <= Length(paletteEnabled)
    /\ paletteEnabled' = IF lockPalette THEN paletteEnabled ELSE Toggled(paletteEnabled, idx)
    /\ Length(paletteEnabled') <= Length(PALETTE) + MaxGrowth
    /\ alert' = FALSE
    /\ UNCHANGED <<imageVars, settingsVars, pointerVars, lockVars, shareVars, lockPalette,
                   harnessVars, queued>>
    /\ processImage
    /\ SaveEffect

\* A base-set button that switches the base colours on and leaves the
\* other flags.
applyBaseSetAdds ==
    /\ img # null
    /\ paletteEnabled' = IF lockPalette THEN paletteEnabled
                         ELSE [i \in PaletteIdx |-> paletteEnabled[i] \/ PALETTE[i] \in BASE_SET]
    /\ alert' = FALSE
    /\ UNCHANGED <<imageVars, settingsVars, pointerVars, lockVars, shareVars, lockPalette,
                   harnessVars, queued>>
    /\ processImage
    /\ SaveEffect

applyBaseSet ==
    /\ img # null
    /\ paletteEnabled' = IF lockPalette THEN paletteEnabled
                         ELSE [i \in PaletteIdx |-> PALETTE[i] \in BASE_SET]
    /\ alert' = FALSE
    /\ UNCHANGED <<imageVars, settingsVars, pointerVars, lockVars, shareVars, lockPalette,
                   harnessVars, queued>>
    /\ processImage
    /\ SaveEffect

enableFullSet ==
    /\ img # null
    /\ paletteEnabled' = IF lockPalette THEN paletteEnabled
                         ELSE [i \in PaletteIdx |-> TRUE]
    /\ alert' = FALSE
    /\ UNCHANGED <<imageVars, settingsVars, pointerVars, lockVars, shareVars, lockPalette,
                   harnessVars, queued>>
    /\ processImage
    /\ SaveEffect

\* The three lock buttons (part_000:740, 781, 880).
ToggleLockPixelation ==
    /\ img # null
    /\ lockPixelation' = ~lockPixelation
    /\ alert' = FALSE
    /\ UNCHANGED <<imageVars, settingsVars, gridVars, pointerVars, lockGenesis, shareVars,
                   paletteVars, harnessVars, queued>>
    /\ UNCHANGED store

ToggleLockGenesis ==
    /\ img # null
    /\ lockGenesis' = ~lockGenesis
    /\ alert' = FALSE
    /\ UNCHANGED <<imageVars, settingsVars, gridVars, pointerVars, lockPixelation, shareVars,
                   paletteVars, harnessVars, queued>>
    /\ UNCHANGED store

ToggleLockPalette ==
    /\ img # null
    /\ lockPalette' = ~lockPalette
    /\ alert' = FALSE
    /\ UNCHANGED <<imageVars, settingsVars, gridVars, pointerVars, lockVars, shareVars,
                   paletteEnabled, harnessVars, queued>>
    /\ SaveEffect

(***************************************************************************)
(* Function runs: one call of a pure function on a drawn argument          *)
(***************************************************************************)
PickCall ==
    /\ ret = <<>>
    /\ ret' = pickNearest(arg, enabledIndices(paletteEnabled))
    /\ UNCHANGED <<imageVars, settingsVars, gridVars, pointerVars, lockVars, shareVars,
                   paletteVars, alert, store, queued, arg>>

InitPick ==
    /\ \E enabled \in EnabledVectors : InitState(SavedWith(100, enabled))
    /\ arg \in RGBInputs
    /\ ret = <<>>

SpecPick == InitPick /\ [][PickCall]_vars

DimsCall ==
    /\ ret = <<>>
    /\ ret' = [W |-> TargetW(arg.across), H |-> TargetH(arg.w, arg.h, arg.across)]
    /\ UNCHANGED <<imageVars, settingsVars, gridVars, pointerVars, lockVars, shareVars,
                   paletteVars, alert, store, queued, arg>>

InitDims ==
    /\ InitState(NoSaved)
    /\ arg \in DimsInputs
    /\ ret = <<>>

SpecDims == InitDims /\ [][DimsCall]_vars

\* A run of processImage's computation for source file arg.f at
\* pixelsAcross arg.across with the enabled vector arg.enabled: what it
\* passes to setGridW, setGridH and setGridColors.
GridOf(f, W, H, enabled) ==
    [W |-> W, H |-> H, colors |-> QuantizedColors(f, W, H, enabledIndices(enabled))]

GridCall ==
    /\ ret = <<>>
    /\ arg # <<>>
    /\ ret' = GridOf(arg.f, TargetW(arg.across),
                     TargetH(FileW[arg.f], FileH[arg.f], arg.across), arg.enabled)
    /\ UNCHANGED <<imageVars, settingsVars, gridVars, pointerVars, lockVars, shareVars,
                   paletteVars, alert, store, queued, arg>>

(***************************************************************************)
(* Specifications                                                          *)
(***************************************************************************)
\* Arguments of the grid runs: the 4x2 and the 2x1 file, at two widths,
\* with the base set enabled and with nothing enabled.
GridInputs ==
    [f : {2, 4}, across : {2, 5},
     enabled : {DefaultPaletteEnabled, [i \in PaletteIdx |-> FALSE]}]

\* Grid runs, beside uploads of the 4x2 and the zero-height file, the
\* slider and a palette toggle.
NextGrid ==
    \/ GridCall
    \/ \E f \in {2, 3} : loadImageFromFile(f)
    \/ \E k \in 1..MaxSubmits : ImageOnload(k)
    \/ SetPixelsAcross(6)
    \/ toggleColour(0)

InitGrid ==
    /\ InitState(NoSaved)
    /\ arg \in GridInputs
    /\ ret = <<>>

SpecGrid == InitGrid /\ [][NextGrid]_vars

\* Uploads, decode completions, the slider and palette toggles.
NextImage ==
    \/ \E f \in Files : loadImageFromFile(f)
    \/ \E k \in 1..MaxSubmits : ImageOnload(k)
    \/ \E k \in 1..MaxSubmits : ImageOnerror(k)
    \/ \E v \in SliderValues : SetPixelsAcross(v)
    \/ \E i \in ToggleIdx : toggleColour(i)

SpecImage == Init /\ [][NextImage]_vars

(***************************************************************************)
(* Properties of the quantizer (function runs, SpecPick)                   *)
(***************************************************************************)
\* The palette index of a palette entry (the entries are distinct).
IndexOf(hex) == CHOOSE i \in PaletteIdx : PALETTE[i] = hex

\* Lab distance from the run's argument to palette entry i.
ArgDistance(i) == labDistance(rgbToLab(arg), paletteLab[i])

EnabledSet == {i \in PaletteIdx : paletteEnabled[i]}

\* The set pickNearest is to choose from: the enabled entries, or all of
\* them when none is enabled.
ActivePool == IF EnabledSet # {} THEN EnabledSet ELSE PaletteIdx

\* C1: with at least one entry enabled, pickNearest returns an enabled
\* palette entry whose Lab distance to the input is less than or equal to
\* that of every other enabled entry.
C1_NearestEnabled ==
    (ret # <<>> /\ EnabledSet # {}) =>
        /\ \E i \in EnabledSet : PALETTE[i] = ret
        /\ \A j \in EnabledSet : ArgDistance(IndexOf(ret)) <= ArgDistance(j)

\* C1 case: the call returned with some entry enabled and a disabled entry
\* strictly nearer to the input than the one returned.
C1_Witness ==
    /\ ret # <<>>
    /\ EnabledSet # {}
    /\ \E j \in PaletteIdx \ EnabledSet : ArgDistance(j) < ArgDistance(IndexOf(ret))

\* C6: with every palette entry disabled, pickNearest returns the entry it
\* returns with every entry enabled.
C6_EmptyPoolFallback ==
    (ret # <<>> /\ EnabledSet = {}) =>
        ret = pickNearest(arg, enabledIndices([i \in PaletteIdx |-> TRUE]))

\* C6 case: the call returned with nothing enabled, and the entry is not
\* the scan's starting index 0.
C6_Witness ==
    /\ ret # <<>>
    /\ EnabledSet = {}
    /\ IndexOf(ret) # 0

\* C7: among the active-pool entries at the minimum Lab distance from the
\* input, pickNearest returns the one of lowest palette index.
C7_LowestIndexOnTie ==
    ret # <<>> =>
        \A j \in ActivePool :
            (\A m \in ActivePool : ArgDistance(j) <= ArgDistance(m))
                => IndexOf(ret) <= j

\* C7 case: the call returned and a second active-pool entry is at the
\* same, minimum, distance as the one returned.
C7_Witness ==
    /\ ret # <<>>
    /\ \E j \in ActivePool :
          /\ j # IndexOf(ret)
          /\ ArgDistance(j) = ArgDistance(IndexOf(ret))
          /\ \A m \in ActivePool : ArgDistance(j) <= ArgDistance(m)

Loaded(k) == k \in DOMAIN requests /\ requests[k].status = "loaded"

\* C2: once the decodes of two submitted files have both completed, the
\* source image and the grid are those of the file submitted last.
C2_LastSubmittedWins ==
    (Loaded(1) /\ Loaded(2)) =>
        /\ img # null
        /\ requests[img].file = requests[2].file
        /\ gridW = TargetW(pixelsAcross)
        /\ gridH = TargetH(FileW[requests[2].file], FileH[requests[2].file], pixelsAcross)
        /\ gridColors = QuantizedColors(requests[2].file, gridW, gridH,
                                        enabledIndices(paletteEnabled))

\* C8: a step that leaves a source image of zero width or height current
\* leaves gridW, gridH and gridColors as they were.
C8_ZeroSizeSkipsProcessing ==
    [][(img' # null /\ (FileW[requests'[img'].file] = 0 \/ FileH[requests'[img'].file] = 0))
          => UNCHANGED gridVars]_vars

(***************************************************************************)
(* Stage: pointer, pan and zoom (part_000:228-265, 306-310, 1059-1123)     *)
(***************************************************************************)
\* Where the image container puts the stage before the pan transform: the
\* flex row centres it horizontally (justifyContent: center).
Container == [centreX |-> 100, top |-> 60]

\* The stage box that ignores the pan transform.
StageRectUnpanned ==
    [left |-> Container.centreX - (gridW * zoom) \div 2,
     top |-> Container.top,
     width |-> gridW * zoom,
     height |-> gridH * zoom]

\* e.currentTarget.getBoundingClientRect() of the stage: width gridW * zoom,
\* height gridH * zoom, translated by dragOffset.
StageRect ==
    [left |-> Container.centreX - (gridW * zoom) \div 2 + dragOffset.x,
     top |-> Container.top + dragOffset.y,
     width |-> gridW * zoom,
     height |-> gridH * zoom]

\* The size label: a child of the stage at top -24, left 0, one line of
\* 12px monospace text, which is wider than a small stage.
SizeLabel == [left |-> 0, top |-> -24, width |-> 160, height |-> 16]

\* The stage's mouse handlers run for events over the stage box or over the
\* label (the overlay and the tooltip take no pointer events).
OverStage(p) ==
    LET px == p.x - StageRect.left
        py == p.y - StageRect.top
    IN  /\ img # null
        /\ \/ 0 <= px /\ px < StageRect.width /\ 0 <= py /\ py < StageRect.height
           \/ /\ SizeLabel.left <= px /\ px < SizeLabel.left + SizeLabel.width
              /\ SizeLabel.top <= py /\ py < SizeLabel.top + SizeLabel.height

\* Client positions the mouse visits: (0, 0) is off the stage, the row at
\* y = 44 crosses the size label, the others lie on or beside the grid.
ClientPoints ==
    {[x |-> 0, y |-> 0]} \cup [x : {84, 92, 116, 124}, y : {44, 64, 72, 80}]

\* A cell index that rounds to the nearest cell instead of flooring.
CellOfNearest(px, z) == (2 * px + z) \div (2 * z)

\* Math.floor(px / zoom)
CellOf(px, z) == px \div z

\* A move that pans without moving the anchor.
onMouseMoveKeepsAnchor(p) ==
    /\ OverStage(p)
    /\ pointer' = p
    /\ IF isDragging
       THEN /\ dragOffset' = [x |-> dragOffset.x + (p.x - dragStart.x),
                              y |-> dragOffset.y + (p.y - dragStart.y)]
            /\ -MaxPan <= dragOffset'.x /\ dragOffset'.x <= MaxPan
            /\ -MaxPan <= dragOffset'.y /\ dragOffset'.y <= MaxPan
            /\ UNCHANGED <<hover, dragStart>>
       ELSE /\ hover' = IF /\ CellOf(p.x - StageRect.left, zoom) \in 0..(gridW - 1)
                           /\ CellOf(p.y - StageRect.top, zoom) \in 0..(gridH - 1)
                        THEN [x |-> CellOf(p.x - StageRect.left, zoom),
                              y |-> CellOf(p.y - StageRect.top, zoom)]
                        ELSE [x |-> -1, y |-> -1]
            /\ UNCHANGED <<dragOffset, dragStart>>
    /\ alert' = FALSE
    /\ UNCHANGED <<imageVars, settingsVars, gridVars, isDragging, lockVars, shareVars,
                   paletteVars, harnessVars, queued>>
    /\ UNCHANGED store

\* onMouseMove: the mouse moves to p, over the stage.
onMouseMove(p) ==
    /\ OverStage(p)
    /\ pointer' = p
    /\ IF isDragging
       THEN /\ dragOffset' = [x |-> dragOffset.x + (p.x - dragStart.x),
                              y |-> dragOffset.y + (p.y - dragStart.y)]
            /\ -MaxPan <= dragOffset'.x /\ dragOffset'.x <= MaxPan
            /\ -MaxPan <= dragOffset'.y /\ dragOffset'.y <= MaxPan
            /\ dragStart' = p
            /\ UNCHANGED hover
       ELSE LET pxX == p.x - StageRect.left
                pxY == p.y - StageRect.top
                x == CellOf(pxX, zoom)
                y == CellOf(pxY, zoom)
            IN  /\ hover' = IF x >= 0 /\ y >= 0 /\ x < gridW /\ y < gridH
                            THEN [x |-> x, y |-> y]
                            ELSE [x |-> -1, y |-> -1]
                /\ UNCHANGED <<dragOffset, dragStart>>
    /\ alert' = FALSE
    /\ UNCHANGED <<imageVars, settingsVars, gridVars, isDragging, lockVars, shareVars,
                   paletteVars, harnessVars, queued>>
    /\ UNCHANGED store

\* A leave that keeps the hover cell.
onMouseLeaveKeeps(p) ==
    /\ OverStage(pointer)
    /\ ~OverStage(p)
    /\ pointer' = p
    /\ alert' = FALSE
    /\ UNCHANGED <<imageVars, settingsVars, gridVars, hover, dragOffset, isDragging, dragStart,
                   lockVars, shareVars, paletteVars, harnessVars, queued>>
    /\ UNCHANGED store

\* onMouseLeave: the mouse moves from over the stage to p, off it.
onMouseLeave(p) ==
    /\ OverStage(pointer)
    /\ ~OverStage(p)
    /\ pointer' = p
    /\ hover' = [x |-> -1, y |-> -1]
    /\ alert' = FALSE
    /\ UNCHANGED <<imageVars, settingsVars, gridVars, dragOffset, isDragging, dragStart,
                   lockVars, shareVars, paletteVars, harnessVars, queued>>
    /\ UNCHANGED store

\* A mouse-down that records no anchor.
onMouseDownNoAnchor ==
    /\ OverStage(pointer)
    /\ isDragging' = TRUE
    /\ alert' = FALSE
    /\ UNCHANGED <<imageVars, settingsVars, gridVars, hover, dragOffset, dragStart, pointer,
                   lockVars, shareVars, paletteVars, harnessVars, queued>>
    /\ UNCHANGED store

\* onMouseDown: a button goes down over the stage.
onMouseDown ==
    /\ OverStage(pointer)
    /\ isDragging' = TRUE
    /\ dragStart' = pointer
    /\ alert' = FALSE
    /\ UNCHANGED <<imageVars, settingsVars, gridVars, hover, dragOffset, pointer,
                   lockVars, shareVars, paletteVars, harnessVars, queued>>
    /\ UNCHANGED store

\* onMouseUp: the button is released over the stage (the window listener
\* of line 307 runs too, with the same effect).
onMouseUp ==
    /\ OverStage(pointer)
    /\ isDragging' = FALSE
    /\ alert' = FALSE
    /\ UNCHANGED <<imageVars, settingsVars, gridVars, hover, dragOffset, dragStart,
                   pointer, lockVars, shareVars, paletteVars, harnessVars, queued>>
    /\ UNCHANGED store

\* handleUp: the button is released anywhere else in the window.
handleUp ==
    /\ ~OverStage(pointer)
    /\ isDragging' = FALSE
    /\ alert' = FALSE
    /\ UNCHANGED <<imageVars, settingsVars, gridVars, hover, dragOffset, dragStart,
                   pointer, lockVars, shareVars, paletteVars, harnessVars, queued>>
    /\ UNCHANGED store

\* The zoom levels the runs visit: within MaxZoomSteps of the default 8
\* and of the two ends of the range.
ZoomVisited(z) ==
    \E a \in {1, 8, 64} : a - MaxZoomSteps <= z /\ z <= a + MaxZoomSteps

\* A zoomIn without Math.min.
zoomInUnbounded ==
    /\ img # null
    /\ zoom' = zoom + 1
    /\ ZoomVisited(zoom')
    /\ alert' = FALSE
    /\ UNCHANGED <<imageVars, pixelsAcross, genesisX, genesisY, gridVars, pointerVars,
                   lockVars, shareVars, paletteVars, harnessVars, queued>>
    /\ SaveEffect

zoomIn ==
    /\ img # null
    /\ zoom' = Min(64, zoom + 1)
    /\ ZoomVisited(zoom')
    /\ alert' = FALSE
    /\ UNCHANGED <<imageVars, pixelsAcross, genesisX, genesisY, gridVars, pointerVars,
                   lockVars, shareVars, paletteVars, harnessVars, queued>>
    /\ SaveEffect

zoomOut ==
    /\ img # null
    /\ zoom' = Max(1, zoom - 1)
    /\ ZoomVisited(zoom')
    /\ alert' = FALSE
    /\ UNCHANGED <<imageVars, pixelsAcross, genesisX, genesisY, gridVars, pointerVars,
                   lockVars, shareVars, paletteVars, harnessVars, queued>>
    /\ SaveEffect

NextPointer ==
    \/ \E p \in ClientPoints : onMouseMove(p)
    \/ \E p \in ClientPoints : onMouseLeave(p)
    \/ onMouseDown
    \/ onMouseUp
    \/ handleUp
    \/ zoomIn
    \/ zoomOut

\* The stage with the 4x2 file loaded at 5 pixels across.
InitPointer ==
    /\ LoadedState(SavedWith(5, DefaultPaletteEnabled), 2)
    /\ arg = <<>>
    /\ ret = <<>>

SpecPointer == InitPointer /\ [][NextPointer]_vars

\* C10: a mouse move over the stage while not dragging, at stage-relative
\* (px, py), makes hover the cell (cx, cy) with cx * zoom <= px < (cx + 1) *
\* zoom and cy * zoom <= py < (cy + 1) * zoom when (px, py) lies in
\* [0, gridW * zoom) x [0, gridH * zoom), and (-1, -1) when it lies outside.
C10_HoverCell ==
    [][(~isDragging /\ \E p \in ClientPoints : onMouseMove(p)) =>
         LET px == pointer'.x - StageRect.left
             py == pointer'.y - StageRect.top
         IN  IF 0 <= px /\ px < gridW * zoom /\ 0 <= py /\ py < gridH * zoom
             THEN /\ hover'.x * zoom <= px /\ px < (hover'.x + 1) * zoom
                  /\ hover'.y * zoom <= py /\ py < (hover'.y + 1) * zoom
             ELSE hover' = [x |-> -1, y |-> -1]]_vars

\* C10 case: not dragging, the stage panned, and hover is the cell under
\* the pointer, away from the grid's first column and row.
C10_Witness ==
    /\ ~isDragging
    /\ dragOffset # [x |-> 0, y |-> 0]
    /\ hover.x > 0 /\ hover.y > 0
    /\ hover.x = (pointer.x - StageRect.left) \div zoom
    /\ hover.y = (pointer.y - StageRect.top) \div zoom

\* C10 case: the pointer is over the size label, outside the grid, and
\* hover is the sentinel.
C10_WitnessOutside ==
    /\ ~isDragging
    /\ OverStage(pointer)
    /\ pointer.y - StageRect.top < 0
    /\ hover = [x |-> -1, y |-> -1]

(***************************************************************************)
(* Share / import and the genesis inputs (part_000:268-303, 805-867, 971)  *)
(***************************************************************************)
\* The code exportSettings makes of the four settings.
ExportCode(across, gx, gy, z) == btoa(Utf8Encode(StringifyPayload(across, gx, gy, z)))

exportSettings ==
    /\ img # null
    /\ shareCode' = ExportCode(pixelsAcross, genesisX, genesisY, zoom)
    /\ exported' = <<[pixelsAcross |-> pixelsAcross, genesisX |-> genesisX,
                      genesisY |-> genesisY, zoom |-> zoom, applied |-> "no"]>>
    /\ alert' = FALSE
    /\ UNCHANGED <<imageVars, settingsVars, gridVars, pointerVars, lockVars,
                   paletteVars, harnessVars, queued>>
    /\ UNCHANGED store

\* What the try block of applySettings has when it comes to the fields:
\* an exception thrown, or the parsed data.
Thrown == [thrown |-> TRUE, data |-> undefined]

\* data.v !== 1
VersionChecked(data, v) ==
    IF v.t # "number" \/ v.n # v.d THEN Thrown ELSE [thrown |-> FALSE, data |-> data]

\* !data || typeof data !== "object"
ObjectChecked(data) ==
    IF Falsy(data) \/ typeof(data) # "object" THEN Thrown
    ELSE VersionChecked(data, Get(data, Key.v))

DecodeData(data) == IF ~data.ok THEN Thrown ELSE ObjectChecked(data.v)

DecodeJson(json) == IF ~json.ok THEN Thrown ELSE DecodeData(JsonParse(json.v))

DecodeBinary(bin) == IF ~bin.ok THEN Thrown ELSE DecodeJson(Utf8Decode(bin.v))

Decode(code) == DecodeBinary(atob(code))

\* The record of the last export, marked when its code is applied: with
\* "changed" if the settings then differed from the exported ones.
Imported(last, refused) ==
    IF last = <<>> \/ refused THEN last
    ELSE <<[last[1] EXCEPT !.applied =
              IF <<pixelsAcross, genesisX, genesisY, zoom>>
                   # <<last[1].pixelsAcross, last[1].genesisX, last[1].genesisY, last[1].zoom>>
              THEN "changed" ELSE "same"]>>

\* An import that leaves a locked setting as it is.
applyDataLocked(got) ==
    /\ exported' = Imported(exported, got.thrown)
    /\ IF got.thrown
       THEN /\ alert' = TRUE
            /\ UNCHANGED <<settingsVars, gridVars, store>>
       ELSE /\ alert' = FALSE
            /\ pixelsAcross' =
                 IF typeof(Get(got.data, Key.pixelsAcross)) = "number" /\ ~lockPixelation
                 THEN clamp(MathRound(Get(got.data, Key.pixelsAcross)), 5, 400)
                 ELSE pixelsAcross
            /\ genesisX' = IF lockGenesis THEN genesisX
                           ELSE GenesisOr(Get(got.data, Key.genesisX), genesisX)
            /\ genesisY' = IF lockGenesis THEN genesisY
                           ELSE GenesisOr(Get(got.data, Key.genesisY), genesisY)
            /\ zoom' =
                 IF typeof(Get(got.data, Key.zoom)) = "number"
                 THEN clamp(MathRound(Get(got.data, Key.zoom)), 1, 64)
                 ELSE zoom
            /\ Cells(requests[img].file, pixelsAcross') <= MaxCells
            /\ processImage
            /\ SaveEffect

\* The lines of applySettings after JSON.parse and the two checks.
applyData(got) ==
    /\ exported' = Imported(exported, got.thrown)
    /\ IF got.thrown
       THEN /\ alert' = TRUE
            /\ UNCHANGED <<settingsVars, gridVars, store>>
       ELSE /\ alert' = FALSE
            /\ pixelsAcross' =
                 IF typeof(Get(got.data, Key.pixelsAcross)) = "number"
                 THEN clamp(MathRound(Get(got.data, Key.pixelsAcross)), 5, 400)
                 ELSE pixelsAcross
            /\ genesisX' = GenesisOr(Get(got.data, Key.genesisX), genesisX)
            /\ genesisY' = GenesisOr(Get(got.data, Key.genesisY), genesisY)
            /\ zoom' =
                 IF typeof(Get(got.data, Key.zoom)) = "number"
                 THEN clamp(MathRound(Get(got.data, Key.zoom)), 1, 64)
                 ELSE zoom
            /\ Cells(requests[img].file, pixelsAcross') <= MaxCells
            /\ processImage
            /\ SaveEffect

applyCode(code) ==
    /\ img # null
    /\ UNCHANGED <<imageVars, pointerVars, lockVars, shareCode, paletteVars,
                   harnessVars, queued>>
    /\ IF code = <<>>
       THEN /\ alert' = FALSE
            /\ UNCHANGED <<settingsVars, gridVars, exported, store>>
       ELSE applyData(Decode(code))

applySettings == applyCode(trim(shareCode))

\* The share input's onChange: the text typed or pasted into it.
TypeShareCode(text) ==
    /\ img # null
    /\ shareCode' = text
    /\ exported' = <<>>
    /\ alert' = FALSE
    /\ UNCHANGED <<imageVars, settingsVars, gridVars, pointerVars, lockVars,
                   paletteVars, harnessVars, queued>>
    /\ UNCHANGED store

\* /^-?\d+$/.test(val)
IsIntegerText(val) ==
    LET a == IF At(val, 1) = 45 THEN 2 ELSE 1
    IN  a <= Len(val) /\ DigitsEnd(val, a) = Len(val) + 1

\* parseInt(val, 10) of such a text.
parseInt(val) ==
    IF At(val, 1) = 45 THEN -DigitsValue(val, 2, Len(val))
                       ELSE DigitsValue(val, 1, Len(val))

\* onChange of a genesis input: '' and '-' are stored as typed, an integer
\* text as its number, anything else not at all.
GenesisTyped(old, val) ==
    IF val = <<>> \/ val = <<45>> THEN JsString(val)
    ELSE IF IsIntegerText(val) THEN JsNumber(parseInt(val))
    ELSE old

\* onBlur of a genesis input, whose text is String(value): '' and '-' give 0.
GenesisBlurred(old) == IF old.t = "string" THEN JsNumber(0) ELSE old

GenesisXChange(val) ==
    /\ img # null
    /\ ~lockGenesis
    /\ genesisX' = GenesisTyped(genesisX, val)
    /\ alert' = FALSE
    /\ UNCHANGED <<imageVars, pixelsAcross, zoom, genesisY, gridVars, pointerVars,
                   lockVars, shareVars, paletteVars, harnessVars, queued>>
    /\ SaveEffect

GenesisYChange(val) ==
    /\ img # null
    /\ ~lockGenesis
    /\ genesisY' = GenesisTyped(genesisY, val)
    /\ alert' = FALSE
    /\ UNCHANGED <<imageVars, pixelsAcross, zoom, genesisX, gridVars, pointerVars,
                   lockVars, shareVars, paletteVars, harnessVars, queued>>
    /\ SaveEffect

GenesisXBlur ==
    /\ img # null
    /\ ~lockGenesis
    /\ genesisX' = GenesisBlurred(genesisX)
    /\ alert' = FALSE
    /\ UNCHANGED <<imageVars, pixelsAcross, zoom, genesisY, gridVars, pointerVars,
                   lockVars, shareVars, paletteVars, harnessVars, queued>>
    /\ SaveEffect

GenesisYBlur ==
    /\ img # null
    /\ ~lockGenesis
    /\ genesisY' = GenesisBlurred(genesisY)
    /\ alert' = FALSE
    /\ UNCHANGED <<imageVars, pixelsAcross, zoom, genesisX, gridVars, pointerVars,
                   lockVars, shareVars, paletteVars, harnessVars, queued>>
    /\ SaveEffect

\* JSON texts pasted as codes.  Besides an exported payload: numbers to
\* round and clamp, a payload without zoom, one whose pixelsAcross is a
\* string, one with only v, another version, values that are no object.
ImportPayloads ==
    { Json("{'v':1,'pixelsAcross':50,'genesisX':7,'genesisY':-3,'zoom':12}"),
      Json("{'v':1,'pixelsAcross':3,'genesisX':6.5,'genesisY':-3.5,'zoom':100}"),
      Json("{'v':1,'pixelsAcross':50,'genesisX':7,'genesisY':-3}"),
      Json("{'v':1,'pixelsAcross':'50','genesisX':7,'genesisY':-3,'zoom':12}"),
      Json("{'v':1}"),
      Json("{'v':2,'pixelsAcross':50,'genesisX':7,'genesisY':-3,'zoom':12}"),
      Json("[1,2]"),
      Json("5"),
      Json("null"),
      Json("hello") }

\* The texts typed into the share input: the codes of the payloads, one of
\* them again with spaces around it and without its padding, a text that
\* is no base64, and blanks.
ImportCodes ==
    { btoa(Utf8Encode(p)) : p \in ImportPayloads }
        \cup { Chars("  ") \o SubSeq(btoa(Utf8Encode(Json("{'v':1}"))), 1, 10) \o Chars(" "),
               Chars("%%%%"),
               Chars("   ") }

\* Texts typed into the genesis inputs.
GenesisTexts == { Chars("-"), Chars("7") }

\* The share box, the genesis inputs and the slider, with the 200x2 file
\* loaded.
NextShare ==
    \/ \E text \in ImportCodes : TypeShareCode(text)
    \/ exportSettings
    \/ applySettings
    \/ \E val \in GenesisTexts : GenesisXChange(val)
    \/ \E val \in {Chars("-"), Chars("-3")} : GenesisYChange(val)
    \/ GenesisXBlur
    \/ GenesisYBlur
    \/ SetPixelsAcross(6)

InitShare ==
    /\ LoadedState(SavedWith(5, DefaultPaletteEnabled), 1)
    /\ arg = <<>>
    /\ ret = <<>>

SpecShare == InitShare /\ [][NextShare]_vars

(***************************************************************************)
(* The hover tooltip and the overlay (part_000:194-225, 1098-1118)         *)
(***************************************************************************)
\* Number(value) || 0 of a genesis state value: '' gives 0, '-' gives NaN.
NumberOr0(v) == IF v.t = "number" THEN v.n ELSE 0

\* hover.x >= 0 && !isDragging
TooltipShown == hover.x >= 0 /\ ~isDragging

\* The world coordinate the tooltip prints.
TooltipWorld ==
    [x |-> NumberOr0(genesisX) + hover.x, y |-> NumberOr0(genesisY) + hover.y]

\* A colour looked up at the world coordinate instead of the grid cell.
TooltipColourAtWorld ==
    IF gridW # 0 /\ gridH # 0
    THEN <<gridColors[(TooltipWorld.y * gridW + TooltipWorld.x) % (gridW * gridH)]>>
    ELSE <<>>

\* The colour the tooltip prints: gridColors[hover.y * gridW + hover.x]
\* when the grid is not empty.
TooltipColour ==
    IF gridW # 0 /\ gridH # 0 THEN <<gridColors[hover.y * gridW + hover.x]>> ELSE <<>>

\* The overlay effect draws the crosshair and the cell outline.
CrosshairShown == hover.x >= 0 /\ hover.y >= 0

\* A code that carries the origin alone.
OriginCode == btoa(Utf8Encode(Json("{'v':1,'genesisX':7,'genesisY':-3}")))

\* The pointer over the grid while the origin is typed and imported, with
\* the 4x2 file loaded at 5 pixels across.
NextOrigin ==
    \/ \E p \in ClientPoints : onMouseMove(p)
    \/ \E p \in ClientPoints : onMouseLeave(p)
    \/ \E val \in GenesisTexts : GenesisXChange(val)
    \/ GenesisYChange(Chars("-3"))
    \/ GenesisXBlur
    \/ GenesisYBlur
    \/ TypeShareCode(OriginCode)
    \/ applySettings

InitOrigin ==
    /\ LoadedState(SavedWith(5, DefaultPaletteEnabled), 2)
    /\ arg = <<>>
    /\ ret = <<>>

SpecOrigin == InitOrigin /\ [][NextOrigin]_vars

(***************************************************************************)
(* Drags among zoom changes and imports                                    *)
(***************************************************************************)
\* Client positions of the drag runs: off the stage, and four on the grid.
PanPoints == {[x |-> 0, y |-> 0]} \cup [x : {84, 92}, y : {64, 72}]

\* With the 4x2 file loaded at 5 pixels across.
NextPan ==
    \/ \E p \in PanPoints : onMouseMove(p)
    \/ \E p \in PanPoints : onMouseLeave(p)
    \/ onMouseDown
    \/ onMouseUp
    \/ handleUp
    \/ zoomIn
    \/ TypeShareCode(OriginCode)
    \/ applySettings

InitPan ==
    /\ LoadedState(SavedWith(5, DefaultPaletteEnabled), 2)
    /\ arg = <<>>
    /\ ret = <<>>

SpecPan == InitPan /\ [][NextPan]_vars

(***************************************************************************)
(* Startup with a stored item, then the controls that are saved            *)
(***************************************************************************)
\* localStorage.getItem('w2p_settings') || 'null', through JSON.parse.
Stored(text) == [read |-> FALSE, ok |-> JsonParse(text).ok, data |-> JsonParse(text).v]

\* A palette array of the right length: booleans as an earlier session
\* saved them, and after the first eight items that are no booleans.
StoredPalette ==
    JsonArray([i \in 1..Length(PALETTE) |->
                  CASE i <= 8 \/ i % 3 = 0 -> JsonBoolean(i % 2 = 1)
                    [] i % 3 = 1 -> JsonNumber(i - 10, 1)
                    [] OTHER -> JsonString(IF i % 2 = 0 THEN <<>> ELSE <<48>>)])

\* What the store holds at startup: nothing, damaged text, values that are
\* no object, out-of-range and fractional numbers, fields of the wrong
\* type, and complete saved objects.
StartupStores ==
    { Stored(Json(t)) : t \in
        { "null", "{oops", "[1,2]",
          "{'pixelsAcross':3.4,'genesisX':6.5,'genesisY':-3.5,'zoom':100}",
          "{'pixelsAcross':1000,'zoom':0.4,'lockPalette':true}",
          "{'pixelsAcross':'50','genesisX':'-','zoom':null,'paletteEnabled':[true],'lockPalette':1}" } }
      \cup { [read |-> FALSE, ok |-> TRUE,
               data |-> JsonObject(<< [k |-> Key.pixelsAcross, v |-> JsonNumber(6, 1)],
                                      [k |-> Key.zoom, v |-> JsonNumber(63, 1)],
                                      [k |-> Key.paletteEnabled, v |-> StoredPalette],
                                      [k |-> Key.lockPalette, v |-> JsonBoolean(FALSE)] >>)] }

\* The code imported in the startup runs: fractional values, the zoom
\* below its range.
StartupCode ==
    btoa(Utf8Encode(Json("{'v':1,'pixelsAcross':5.5,'genesisX':6.5,'zoom':0.4}")))

NextStore ==
    \/ LoadPersisted
    \/ loadImageFromFile(1)
    \/ ImageOnload(1)
    \/ zoomIn
    \/ zoomOut
    \/ SetPixelsAcross(6)
    \/ TypeShareCode(StartupCode)
    \/ applySettings
    \/ GenesisXChange(Chars("-"))
    \/ toggleColour(0)
    \/ ToggleLockPalette

InitStore ==
    /\ \E stored \in StartupStores : FirstRender(stored)
    /\ arg = <<>>
    /\ ret = <<>>

SpecStore == InitStore /\ [][NextStore]_vars

(***************************************************************************)
(* Startup effect by effect                                                *)
(***************************************************************************)
\* Items an earlier session may have left: whole and fractional numbers in
\* and out of range, an all-true and the base-set vector, both lock values.
StartupItems ==
    { JsonObject(<< [k |-> Key.pixelsAcross, v |-> across],
                    [k |-> Key.genesisX, v |-> gx],
                    [k |-> Key.genesisY, v |-> JsonNumber(-7, 2)],
                    [k |-> Key.zoom, v |-> z],
                    [k |-> Key.paletteEnabled,
                     v |-> JsonArray([i \in 1..Length(PALETTE) |->
                                        JsonBoolean(full \/ DefaultPaletteEnabled[i - 1])])],
                    [k |-> Key.lockPalette, v |-> JsonBoolean(lock)] >>) :
        across \in {JsonNumber(5, 1), JsonNumber(100, 1), JsonNumber(17, 5),
                    JsonNumber(1000, 1)},
        gx \in {JsonNumber(0, 1), JsonNumber(13, 2)},
        z \in {JsonNumber(8, 1), JsonNumber(64, 1), JsonNumber(2, 5), JsonNumber(100, 1)},
        full \in BOOLEAN,
        lock \in BOOLEAN }

NextStartup ==
    \/ MountEffects
    \/ Settle
    \/ loadImageFromFile(2)

InitStartup ==
    /\ \E stored \in StartupStores \cup {[read |-> FALSE, ok |-> TRUE, data |-> item] :
                                            item \in StartupItems} :
          FirstRender(stored)
    /\ arg = <<>>
    /\ ret = <<>>

SpecStartup == InitStartup /\ [][NextStartup]_vars

(***************************************************************************)
(* The palette panel and its lock, among the other controls                *)
(***************************************************************************)
\* With the 4x2 file loaded at 5 pixels across.
NextPalette ==
    \/ \E idx \in ToggleIdx : toggleColour(idx)
    \/ applyBaseSet
    \/ enableFullSet
    \/ ToggleLockPalette
    \/ SetPixelsAcross(6)
    \/ zoomIn
    \/ GenesisXChange(Chars("7"))
    \/ TypeShareCode(StartupCode)
    \/ applySettings

InitPalette ==
    /\ LoadedState(SavedWith(5, DefaultPaletteEnabled), 2)
    /\ arg = <<>>
    /\ ret = <<>>

SpecPalette == InitPalette /\ [][NextPalette]_vars

(***************************************************************************)
(* Calls of toggleColour with indices in and outside the palette           *)
(***************************************************************************)
ToggleCalls == {0, 1, 9, Length(PALETTE) - 1, Length(PALETTE), Length(PALETTE) + 1}

NextToggle == \E idx \in ToggleCalls : toggleColourCall(idx)

InitToggle ==
    /\ InitState(NoSaved)
    /\ arg = <<>>
    /\ ret = <<>>

SpecToggle == InitToggle /\ [][NextToggle]_vars

(***************************************************************************)
(* The pointer resting on the stage while the grid is replaced             *)
(***************************************************************************)
HoverCode == btoa(Utf8Encode(Json("{'v':1,'pixelsAcross':5}")))

\* With the 4x2 file loaded at 5 pixels across: moves over the stage, the
\* slider and the import operated from the keyboard, and the upload of the
\* 200x2 file, whose onload may come after the pointer is back on the stage.
NextHover ==
    \/ \E p \in ClientPoints : onMouseMove(p)
    \/ \E p \in ClientPoints : onMouseLeave(p)
    \/ \E v \in {5, 6} : SetPixelsAcross(v)
    \/ TypeShareCode(HoverCode)
    \/ applySettings
    \/ loadImageFromFile(1)
    \/ ImageOnload(2)

InitHover ==
    /\ LoadedState(SavedWith(5, DefaultPaletteEnabled), 2)
    /\ arg = <<>>
    /\ ret = <<>>

SpecHover == InitHover /\ [][NextHover]_vars

(***************************************************************************)
(* Imports and direct input under the pixelation and genesis locks         *)
(***************************************************************************)
LockCode == btoa(Utf8Encode(Json("{'v':1,'pixelsAcross':8,'genesisX':7,'genesisY':-3}")))

\* With the 4x2 file loaded at 5 pixels across: the two lock buttons, the
\* slider, the origin fields, and the import of a valid code and of a text
\* that is no base64.
NextLocks ==
    \/ ToggleLockPixelation
    \/ ToggleLockGenesis
    \/ SetPixelsAcross(6)
    \/ GenesisXChange(Chars("4"))
    \/ GenesisYChange(Chars("4"))
    \/ \E text \in {LockCode, Chars("%%%%")} : TypeShareCode(text)
    \/ applySettings

InitLocks ==
    /\ LoadedState(SavedWith(5, DefaultPaletteEnabled), 2)
    /\ arg = <<>>
    /\ ret = <<>>

SpecLocks == InitLocks /\ [][NextLocks]_vars

(***************************************************************************)
(* The whole application                                                   *)
(***************************************************************************)
Next ==
    \/ LoadPersisted
    \/ NextImage
    \/ NextPointer
    \/ NextShare
    \/ applyBaseSet
    \/ enableFullSet
    \/ ToggleLockPixelation
    \/ ToggleLockGenesis
    \/ ToggleLockPalette

Spec == Init /\ [][Next]_vars


(***************************************************************************)
(* Properties of the share code                                            *)
(***************************************************************************)
\* The four settings, as the payload carries them.
Settings == <<pixelsAcross, genesisX, genesisY, zoom>>

\* The code in the share input encodes the settings of a state with integer
\* genesis values (pixelsAcross and zoom are integers within their ranges
\* in every state).
ExportedValid ==
    /\ exported # <<>>
    /\ exported[1].genesisX.t = "number"
    /\ exported[1].genesisY.t = "number"
    /\ exported[1].pixelsAcross \in 5..400
    /\ exported[1].zoom \in 1..64

\* C3: applying the code exportSettings produced in a state with integer
\* settings in range sets pixelsAcross, genesisX, genesisY and zoom to
\* exactly the exported values, whatever they were when the code is
\* applied, and raises no error notice.
C3_ExportApplyRoundTrip ==
    [][(ExportedValid /\ applySettings) =>
          /\ pixelsAcross' = exported[1].pixelsAcross
          /\ genesisX' = exported[1].genesisX
          /\ genesisY' = exported[1].genesisY
          /\ zoom' = exported[1].zoom
          /\ ~alert']_vars

\* An exported code with a negative genesis value has been applied over
\* settings that differed from the exported ones, which are now restored.
C3_Witness ==
    /\ ExportedValid
    /\ exported[1].applied = "changed"
    /\ exported[1].genesisY.n < 0
    /\ Settings = <<exported[1].pixelsAcross, exported[1].genesisX,
                    exported[1].genesisY, exported[1].zoom>>
    /\ ~alert

\* The JSON value a code carries, when it is base64 of UTF-8 of JSON.
PayloadOf(code) ==
    LET bin == atob(code)
        json == Utf8Decode(bin.v)
        data == JsonParse(json.v)
    IN  IF bin.ok /\ json.ok /\ data.ok THEN [json |-> TRUE, data |-> data.v]
        ELSE [json |-> FALSE, data |-> undefined]

FieldKeys == {Key.pixelsAcross, Key.genesisX, Key.genesisY, Key.zoom}

\* The payloads the wire contract rejects: no base64 of JSON text, no
\* object, a version other than 1, or one of the four fields missing or
\* not a number.
Malformed(code) ==
    LET p == PayloadOf(code)
        v == Get(p.data, Key.v)
    IN  \/ ~p.json
        \/ p.data.t # "object"
        \/ v.t # "number" \/ v.n # v.d
        \/ \E key \in FieldKeys : Get(p.data, key).t # "number"

\* C4: applying a code (not blank) whose payload is malformed raises the
\* error notice.
C4_MalformedRaisesError ==
    [][(applySettings /\ trim(shareCode) # <<>> /\ Malformed(trim(shareCode))) => alert']_vars

\* The four settings hold the payload's values, rounded, and clamped where
\* the setting has a range.
HoldsPayload(code, across, gx, gy, z) ==
    LET data == PayloadOf(code).data
    IN  /\ \A key \in FieldKeys : Get(data, key).t = "number"
        /\ across = clamp(MathRound(Get(data, Key.pixelsAcross)), 5, 400)
        /\ gx = JsNumber(MathRound(Get(data, Key.genesisX)))
        /\ gy = JsNumber(MathRound(Get(data, Key.genesisY)))
        /\ z = clamp(MathRound(Get(data, Key.zoom)), 1, 64)

\* C5: importing a code (not blank) is all-or-nothing: after applySettings
\* either all four settings hold the payload's values, or the error notice
\* was raised and no variable but the notice has changed.
C5_ImportAllOrNothing ==
    [][(applySettings /\ trim(shareCode) # <<>>) =>
          \/ HoldsPayload(trim(shareCode), pixelsAcross', genesisX', genesisY', zoom')
          \/ alert' /\ UNCHANGED <<imageVars, settingsVars, gridVars, pointerVars, lockVars,
                                   shareVars, paletteVars>>]_vars

\* The last clause of C5 alone: no import changes only some of the four
\* settings.
C5_NoPartialImport ==
    [][applySettings =>
          \/ HoldsPayload(trim(shareCode), pixelsAcross', genesisX', genesisY', zoom')
          \/ UNCHANGED <<settingsVars, gridVars>>]_vars


(***************************************************************************)
(* Properties of pan, origin and the pointer protocol                      *)
(***************************************************************************)
\* The cell under stage-relative (px, py), or the sentinel: the cell (cx, cy)
\* of the grid with cx * zoom <= px < (cx + 1) * zoom, likewise cy.
CellUnder(px, py) ==
    IF 0 <= px /\ px < gridW * zoom /\ 0 <= py /\ py < gridH * zoom
    THEN [x |-> CHOOSE cx \in 0..(gridW - 1) : cx * zoom <= px /\ px < (cx + 1) * zoom,
          y |-> CHOOSE cy \in 0..(gridH - 1) : cy * zoom <= py /\ py < (cy + 1) * zoom]
    ELSE [x |-> -1, y |-> -1]

\* C11: whatever the pan offset, a move in Idle to client point p reports
\* the cell under p relative to the stage box translated by the pan: the
\* cell that an unpanned stage reports for p - dragOffset.
C11_PanIndependent ==
    [][(~isDragging /\ \E p \in ClientPoints : onMouseMove(p)) =>
          hover' = CellUnder(pointer'.x - dragOffset.x
                                 - (Container.centreX - (gridW * zoom) \div 2),
                             pointer'.y - dragOffset.y - Container.top)]_vars

\* C11 case: after drags that panned the stage left and down, the pointer
\* is over a cell and hover is that cell.
C11_Witness ==
    /\ ~isDragging
    /\ dragOffset.x < 0 /\ dragOffset.y > 0
    /\ hover.x >= 0
    /\ hover = CellUnder(pointer.x - dragOffset.x
                             - (Container.centreX - (gridW * zoom) \div 2),
                         pointer.y - dragOffset.y - Container.top)

\* C12: a step that changes the origin (genesisX or genesisY), typed or
\* imported, leaves gridW, gridH, gridColors and the hover cell as they
\* were, and with them the colour the tooltip looks up for the hovered
\* cell; what changes is the world coordinate, which stays the origin plus
\* the hover cell.
C12_OriginOnlyDisplay ==
    [][(genesisX' # genesisX \/ genesisY' # genesisY) =>
         /\ UNCHANGED <<gridW, gridH, gridColors, hover>>
         /\ hover.x >= 0 => TooltipColour' = TooltipColour
         /\ TooltipWorld'.x - hover'.x = NumberOr0(genesisX')
         /\ TooltipWorld'.y - hover'.y = NumberOr0(genesisY')]_vars

\* C12 case: a cell is hovered, its tooltip shows, and the origin is no
\* longer the default on either axis.
C12_Witness ==
    /\ TooltipShown
    /\ hover.x > 0
    /\ genesisX = JsNumber(7)
    /\ genesisY = JsNumber(-3)
    /\ TooltipWorld = [x |-> 7 + hover.x, y |-> hover.y - 3]

(***************************************************************************)
(* Properties of the ranges, the palette lock and the stored settings      *)
(***************************************************************************)
\* C13: in every reachable state (after the startup load, zoomIn, zoomOut
\* and imports) zoom is an integer with 1 <= zoom <= 64.
C13_ZoomInRange == zoom \in 1..64

\* C13 case: the store held zoom 100 (and genesisY -3.5) at startup, and
\* after the load zoom is 64 and an image is shown.
C13_Witness ==
    /\ store.read
    /\ img # null
    /\ zoom = 64
    /\ genesisY = JsNumber(-3)

\* C13 case: a code with zoom 0.4 was imported, and zoom is 1.
C13_WitnessImport ==
    /\ exported = <<>>
    /\ shareCode = StartupCode
    /\ genesisX = JsNumber(7)
    /\ zoom = 1
    /\ Get(store.data, Key.zoom) = JsonNumber(1, 1)

\* C14: zoomIn adds 1 to zoom and zoomOut subtracts 1, except that zoomIn
\* at 64 leaves 64 and zoomOut at 1 leaves 1.
C14_ZoomSteps ==
    [][/\ zoomIn => zoom' = IF zoom = 64 THEN 64 ELSE zoom + 1
       /\ zoomOut => zoom' = IF zoom = 1 THEN 1 ELSE zoom - 1]_vars

\* C14 case: the session that started with zoom 63 and the stored palette
\* has zoomed in to 64, where zoomIn is available again.
C14_Witness ==
    /\ img # null
    /\ zoom = 64
    /\ genesisY = JsNumber(0)
    /\ ENABLED zoomIn

\* C14 case: zoom is 1 with an image shown, where zoomOut is available.
C14_WitnessLow ==
    /\ img # null
    /\ zoom = 1
    /\ ENABLED zoomOut

\* C15: in every reachable state pixelsAcross is an integer with
\* 5 <= pixelsAcross <= 400: stored and imported values are rounded and
\* clamped, and the slider gives values of the range only.
C15_PixelsAcrossInRange == pixelsAcross \in 5..400

\* C15 case: the store held pixelsAcross 1000 (and lockPalette true) at
\* startup, and after the load pixelsAcross is 400.
C15_Witness ==
    /\ store.read
    /\ pixelsAcross = 400
    /\ lockPalette

\* C15 case: the store held pixelsAcross 3.4 and an image is shown at 5
\* across; or a code with pixelsAcross 5.5 was imported and it is 6.
C15_WitnessLow ==
    /\ img # null
    /\ \/ pixelsAcross = 5 /\ genesisY = JsNumber(-3) /\ gridW = 5
       \/ pixelsAcross = 6 /\ shareCode = StartupCode /\ zoom = 1 /\ gridW = 6

\* C16: while lockPalette is set no step changes paletteEnabled: not
\* toggleColour, applyBaseSet or enableFullSet, and not any other control.
C16_LockedPaletteFixed ==
    [][lockPalette => paletteEnabled' = paletteEnabled]_vars

\* C16 case: the palette is locked with colour 0 toggled off and colour 9
\* toggled, and an image is shown, so that the palette panel and the other
\* controls are there to be used.
C16_Witness ==
    /\ lockPalette
    /\ img # null
    /\ ~paletteEnabled[0]
    /\ paletteEnabled[9] # DefaultPaletteEnabled[9]
    /\ zoom > 8

(***************************************************************************)
(* Properties of the drag protocol and the hover display                   *)
(***************************************************************************)
\* C17: the pointer is in one of two states, Idle or Dragging (isDragging):
\* a mouse-down on the stage enters Dragging and records the pointer
\* position as the anchor, and a mouse-up, on the stage or anywhere else,
\* returns to Idle.
C17_DragProtocol ==
    [][/\ isDragging \in BOOLEAN /\ isDragging' \in BOOLEAN
       /\ onMouseDown => isDragging' /\ dragStart' = pointer
       /\ (onMouseUp \/ handleUp) => ~isDragging'
       /\ (isDragging' # isDragging) => (onMouseDown \/ onMouseUp \/ handleUp)]_vars

\* C17 case: after a pan, a new mouse-down on the stage: Dragging, with
\* the pointer position as anchor.
C17_Witness ==
    /\ isDragging
    /\ OverStage(pointer)
    /\ dragStart = pointer
    /\ dragOffset # [x |-> 0, y |-> 0]

\* C17 case: Idle again with the pointer off the stage, where only the
\* window's listener can have taken the mouse-up, or the stage's own
\* before the pointer left.
C17_WitnessReleased ==
    /\ ~isDragging
    /\ ~OverStage(pointer)
    /\ dragOffset # [x |-> 0, y |-> 0]

\* C18: while dragging the hover display is suppressed: neither the
\* tooltip nor the crosshair and cell outline of the overlay is shown.
C18_NoHoverDisplayWhileDragging ==
    isDragging => ~TooltipShown /\ ~CrosshairShown

\* C18, first half: a mouse move while dragging does not recompute the
\* hover cell, and the tooltip is not shown while dragging.
C18_HoverKeptWhileDragging ==
    [][/\ (isDragging /\ \E p \in ClientPoints : onMouseMove(p)) => hover' = hover
       /\ isDragging => ~TooltipShown]_vars

\* C19: when the pointer leaves the stage while Idle hover becomes
\* (-1, -1), and from (-1, -1) it changes only by a mouse move in Idle to a
\* position inside the grid, to the cell there.
C19_LeaveClearsHover ==
    [][/\ (~isDragging /\ \E p \in ClientPoints : onMouseLeave(p)) =>
             hover' = [x |-> -1, y |-> -1]
       /\ (hover = [x |-> -1, y |-> -1] /\ hover' # hover) =>
             /\ ~isDragging
             /\ \E p \in ClientPoints : onMouseMove(p)
             /\ hover' = CellUnder(pointer'.x - StageRect.left, pointer'.y - StageRect.top)]_vars

\* C19 case: Idle, the stage panned by an earlier drag, the pointer off the
\* stage and hover (-1, -1).
C19_Witness ==
    /\ ~isDragging
    /\ ~OverStage(pointer)
    /\ pointer # [x |-> 0, y |-> 0]
    /\ dragOffset # [x |-> 0, y |-> 0]
    /\ hover = [x |-> -1, y |-> -1]

(***************************************************************************)
(* Properties of the stored settings                                       *)
(***************************************************************************)
\* The store holds an object of exactly the six fields, with the current
\* values.
StoreCurrent ==
    /\ store.ok
    /\ store.data.t = "object"
    /\ Len(store.data.members) = 6
    /\ {store.data.members[m].k : m \in 1..6} =
          {Key.pixelsAcross, Key.genesisX, Key.genesisY, Key.zoom, Key.paletteEnabled,
           Key.lockPalette}
    /\ Get(store.data, Key.pixelsAcross) = JsonNumber(pixelsAcross, 1)
    /\ Get(store.data, Key.genesisX) =
          IF genesisX.t = "number" THEN JsonNumber(genesisX.n, 1) ELSE JsonString(genesisX.s)
    /\ Get(store.data, Key.genesisY) =
          IF genesisY.t = "number" THEN JsonNumber(genesisY.n, 1) ELSE JsonString(genesisY.s)
    /\ Get(store.data, Key.zoom) = JsonNumber(zoom, 1)
    /\ Get(store.data, Key.paletteEnabled).t = "array"
    /\ Len(Get(store.data, Key.paletteEnabled).members) = Length(PALETTE)
    /\ \A i \in PaletteIdx :
          Get(store.data, Key.paletteEnabled).members[i + 1] = JsonBoolean(paletteEnabled[i])
    /\ Get(store.data, Key.lockPalette) = JsonBoolean(lockPalette)

\* The useState defaults of the six stored settings.
SettingsDefault ==
    /\ pixelsAcross = 100
    /\ genesisX = JsNumber(0)
    /\ genesisY = JsNumber(0)
    /\ zoom = 8
    /\ paletteEnabled = DefaultPaletteEnabled
    /\ ~lockPalette

\* C20: the stored item is read by the startup load only; a missing or
\* damaged item leaves the defaults and raises no notice; and from the
\* startup on, after every step (so after every change of pixelsAcross,
\* the origin, zoom, the enabled vector or the palette lock) the store
\* holds exactly the six fields with their current values.
C20_StoreFollowsSettings ==
    /\ [](store.read => StoreCurrent)
    /\ [](~store.read => SettingsDefault)
    /\ [][/\ (LoadPersisted /\ (~store.ok \/ store.data = JsonNull)) =>
                SettingsDefault' /\ ~alert'
          /\ (store.read /\ <<pixelsAcross, genesisX, genesisY, zoom, paletteEnabled, lockPalette>>'
                             # <<pixelsAcross, genesisX, genesisY, zoom, paletteEnabled,
                                  lockPalette>>) =>
                store' # store /\ StoreCurrent']_vars

\* C20 case: an image is shown, the palette is locked with colour 0
\* toggled off, the origin's X is the text '-', zoom and pixelsAcross were
\* changed, and the store holds these values.
C20_Witness ==
    /\ store.read
    /\ img # null
    /\ lockPalette
    /\ ~paletteEnabled[0]
    /\ genesisX = JsString(<<45>>)
    /\ zoom = 9
    /\ pixelsAcross = 6
    /\ StoreCurrent

\* C20 case: the startup is over with the defaults in place and stored,
\* and no notice raised, as after a missing or damaged item.
C20_WitnessDefaults ==
    /\ store.read
    /\ SettingsDefault
    /\ requests = <<>>
    /\ ~alert
    /\ StoreCurrent

(***************************************************************************)
(* Properties of decode failures and of the origin's type                  *)
(***************************************************************************)
\* C21: when the decode of a submitted image fails, the failure is shown
\* to the user, and the source image, gridW, gridH and gridColors stay as
\* they were before the submission.
C21_DecodeFailureSurfaced ==
    [][(\E k \in 1..MaxSubmits : ImageOnerror(k)) =>
          alert' /\ UNCHANGED <<img, gridW, gridH, gridColors>>]_vars

\* C21, second half: a failed decode leaves the source image and the grid
\* as they were.
C21_FailureKeepsGrid ==
    [][(\E k \in 1..MaxSubmits : ImageOnerror(k)) =>
          UNCHANGED <<img, gridW, gridH, gridColors>>]_vars

\* C22: in every reachable state genesisX and genesisY are integers.
C22_OriginIntegers ==
    /\ genesisX.t = "number" /\ genesisX.n \in Int
    /\ genesisY.t = "number" /\ genesisY.n \in Int

\* C22 without the states between a keystroke and the blur: whenever the
\* origin inputs hold a number it is an integer, and a blur leaves numbers.
C22_OriginIntegerOrTyping ==
    /\ genesisX.t = "number" => genesisX.n \in Int
    /\ genesisX.t = "string" => genesisX.s \in {<<>>, <<45>>}
    /\ genesisY.t = "number" => genesisY.n \in Int
    /\ genesisY.t = "string" => genesisY.s \in {<<>>, <<45>>}

C23_ToggleInRangeKeepsLength ==
    [][\A idx \in PaletteIdx :
          toggleColourCall(idx) => DOMAIN paletteEnabled' = DOMAIN paletteEnabled]_vars

\* The hex digits of "#000000" and "#FFFFFF".
Black == <<0, 0, 0, 0, 0, 0>>
White == <<15, 15, 15, 15, 15, 15>>

\* A W x H grid holds exactly W * H cells, row by row, the cell at
\* y * W + x being the palette match of target sample (x, y) of file f.
RowMajorGrid(f, W, H, colors, enabled) ==
    /\ W >= 1 /\ H >= 1
    /\ DOMAIN colors = 0..(W * H - 1)
    /\ \A x \in 0..(W - 1) : \A y \in 0..(H - 1) :
          colors[y * W + x] = pickNearest(SampleAt(f, x, y, W, H), enabledIndices(enabled))

\* C24: every grid processImage produces has W >= 1, H >= 1 and exactly
\* W * H cells stored row by row, the cell at y * W + x being the palette
\* match of target sample (x, y); in every reachable state gridColors has
\* gridW * gridH entries; the 2x1 source with a black and a white pixel at
\* pixelsAcross 2 gives [#000000, #FFFFFF].
C24_GridShape ==
    /\ Length(gridColors) = gridW * gridH
    /\ img # null =>
          RowMajorGrid(requests[img].file, gridW, gridH, gridColors, paletteEnabled)
    /\ ret # <<>> =>
          /\ RowMajorGrid(arg.f, ret.W, ret.H, ret.colors, arg.enabled)
          /\ (arg.f = 4 /\ arg.across = 2) =>
                ret.W = 2 /\ ret.H = 1 /\ ret.colors = Arr(<<Black, White>>)

\* C24 case: the run on the 2x1 file at pixelsAcross 2 returned
\* [#000000, #FFFFFF], and the 4x2 file is shown as a grid of three rows.
C24_Witness ==
    /\ arg.f = 4 /\ arg.across = 2
    /\ ret # <<>>
    /\ ret.colors = Arr(<<Black, White>>)
    /\ img # null
    /\ requests[img].file = 2
    /\ gridH = 3
    /\ Length(gridColors) = gridW * 3

\* C24 case: the zero-height file is shown, as one row.
C24_WitnessZeroHeight ==
    /\ img # null
    /\ requests[img].file = 3
    /\ gridW = pixelsAcross
    /\ gridH = 1

\* The grid is the quantization of the current source image at the
\* current pixelsAcross with the current enabled vector.
GridCurrent ==
    /\ gridW = TargetW(pixelsAcross)
    /\ gridH = TargetH(naturalWidth(img), naturalHeight(img), pixelsAcross)
    /\ gridColors = [c \in 0..(gridW * gridH - 1) |->
                        pickNearest(SampleAt(requests[img].file, c % gridW, c \div gridW,
                                             gridW, gridH),
                                    enabledIndices(paletteEnabled))]

\* C25: with an image loaded, after every step the grid is the
\* quantization of the current source image at the current pixelsAcross
\* with the current active pool, whichever of the three changed; and a step
\* that changes none of them leaves the grid as it was.
C25_GridFollowsInputs ==
    /\ [](img # null => GridCurrent)
    /\ [][(img' = img /\ pixelsAcross' = pixelsAcross /\ ActivePool' = ActivePool)
             => UNCHANGED <<gridW, gridH, gridColors>>]_vars

\* C25 case: the second upload is shown, after the slider was moved and
\* colour 0 switched off, and the grid is that of these inputs.
C25_Witness ==
    /\ img = 2
    /\ requests[1].file # requests[2].file
    /\ pixelsAcross = 6
    /\ ~paletteEnabled[0]
    /\ GridCurrent

\* C26: a mouse move while dragging adds (pointer position - anchor) to
\* the pan offset and makes the pointer position the anchor, so that
\* during a drag (until a mouse-up or a new mouse-down) pan offset minus
\* anchor stays what it was at the mouse-down and the pan is its value at
\* the mouse-down plus (last position - position of the mouse-down); every
\* other step (mouse-down, mouse-up, move in Idle, leave, zoom, import)
\* leaves the pan offset.
C26_PanFollowsDrag ==
    [][/\ (isDragging /\ \E p \in PanPoints : onMouseMove(p)) =>
             /\ dragOffset' = [x |-> dragOffset.x + (pointer'.x - dragStart.x),
                               y |-> dragOffset.y + (pointer'.y - dragStart.y)]
             /\ dragStart' = pointer'
       /\ (isDragging /\ isDragging' /\ ~onMouseDown) =>
             /\ dragOffset'.x - dragStart'.x = dragOffset.x - dragStart.x
             /\ dragOffset'.y - dragStart'.y = dragOffset.y - dragStart.y
       /\ ~(isDragging /\ \E p \in PanPoints : onMouseMove(p)) =>
             dragOffset' = dragOffset]_vars

\* C26 case: in a second drag, begun with the stage already panned, the
\* mouse has moved: the anchor is the pointer position and the pan has
\* followed on both axes.
C26_Witness ==
    /\ isDragging
    /\ dragStart = pointer
    /\ dragOffset = [x |-> 8, y |-> -8]
    /\ zoom > 8
    /\ genesisX = JsNumber(7)

(***************************************************************************)
(* Properties of the presets, the hover cell, the locks and the startup    *)
(***************************************************************************)
\* C27: applyBaseSet with the palette unlocked leaves flag i true exactly
\* when palette entry i is one of the base set's colours, and enableFullSet
\* leaves every flag true, whatever the flags were; so a preset applied
\* again changes nothing.
C27_PresetsFromMembership ==
    [][/\ (~lockPalette /\ applyBaseSet) =>
             /\ DOMAIN paletteEnabled' = 0..(Len(PaletteHex) - 1)
             /\ \A i \in DOMAIN paletteEnabled' :
                   paletteEnabled'[i] <=>
                      \E k \in 1..Len(BaseSetHex) : BaseSetHex[k] = PaletteHex[i + 1]
       /\ (~lockPalette /\ enableFullSet) =>
             /\ DOMAIN paletteEnabled' = 0..(Len(PaletteHex) - 1)
             /\ \A i \in DOMAIN paletteEnabled' : paletteEnabled'[i]]_vars

\* C27 case: unlocked, every flag is true, which enableFullSet alone
\* brings about (the toggles reach colours 0 and 9 only).
C27_Witness ==
    /\ ~lockPalette
    /\ \A i \in PaletteIdx : paletteEnabled[i]
    /\ Cardinality({i \in PaletteIdx : DefaultPaletteEnabled[i]}) < Length(PALETTE)

\* C27 case: the base set is back in place after the palette was changed
\* and the slider moved; the base set has colours the palette lacks.
C27_WitnessBase ==
    /\ ~lockPalette
    /\ pixelsAcross = 6
    /\ paletteEnabled = DefaultPaletteEnabled
    /\ \E k \in 1..Len(BaseSetHex) : \A i \in PaletteIdx : PALETTE[i] # BaseSetHex[k]

\* C28: hover is the sentinel (-1, -1) or a cell of the current grid, 0 <=
\* hover.x < gridW and 0 <= hover.y < gridH, also after the grid was
\* replaced by a smaller one with no pointer event in between, so that
\* hover.y * gridW + hover.x is the index of the hovered cell.
C28_HoverInGrid ==
    \/ hover = [x |-> -1, y |-> -1]
    \/ /\ 0 <= hover.x /\ hover.x < gridW
       /\ 0 <= hover.y /\ hover.y < gridH
       /\ hover.y * gridW + hover.x \in DOMAIN gridColors

\* What the code does keep: a move outside a drag leaves hover the
\* sentinel or a cell of the grid of that moment.
C28_MoveSetsHoverInGrid ==
    [][(~isDragging /\ \E p \in ClientPoints : onMouseMove(p)) =>
          \/ hover' = [x |-> -1, y |-> -1]
          \/ /\ 0 <= hover'.x /\ hover'.x < gridW'
             /\ 0 <= hover'.y /\ hover'.y < gridH']_vars

\* C29: the pixelation lock and the genesis lock stop the slider and the
\* origin fields only: an import of a valid code sets pixelsAcross,
\* genesisX and genesisY to the code's values whether the locks are set or
\* not, no import changes a lock flag, and under a set lock nothing but an
\* import changes the locked setting.
C29_LocksGuardDirectInputOnly ==
    [][/\ (applySettings /\ trim(shareCode) = LockCode) =>
             /\ pixelsAcross' = 8
             /\ genesisX' = JsNumber(7)
             /\ genesisY' = JsNumber(-3)
       /\ applySettings => UNCHANGED lockVars
       /\ (lockPixelation /\ lockPixelation' /\ pixelsAcross' # pixelsAcross) =>
             applySettings
       /\ (lockGenesis /\ lockGenesis' /\ <<genesisX', genesisY'>> # <<genesisX, genesisY>>) =>
             applySettings
       /\ (~lockPixelation /\ SetPixelsAcross(6)) => pixelsAcross' = 6]_vars

\* C29 case: both locks set and the settings are those of the imported
\* code, which neither the slider nor the origin fields of the runs give,
\* after the slider and a field were used.
C29_Witness ==
    /\ lockPixelation
    /\ lockGenesis
    /\ pixelsAcross = 8
    /\ genesisX = JsNumber(7)
    /\ genesisY = JsNumber(-3)
    /\ ~alert

\* C29 case: both locks set after the slider and a field were used, and
\* the import of the text that is no code was refused with the alert.
C29_WitnessRefused ==
    /\ lockPixelation
    /\ lockGenesis
    /\ alert
    /\ pixelsAcross = 6
    /\ genesisX = JsNumber(4)

\* The number r is Math.round of the JSON number v.
NearestInteger(v, r) ==
    /\ 2 * v.d * r <= 2 * v.n + v.d
    /\ 2 * v.n + v.d < 2 * v.d * (r + 1)

\* The state value n is the stored number v, rounded.
RoundedFrom(v, n) ==
    \E r \in (v.n \div v.d - 1)..(v.n \div v.d + 1) : NearestInteger(v, r) /\ n = r

\* The state value n is the stored number v, rounded and kept in lo..hi.
LoadedFrom(v, lo, hi, n) ==
    \E r \in (v.n \div v.d - 1)..(v.n \div v.d + 1) :
        NearestInteger(v, r) /\ n = Max(lo, Min(hi, r))

\* The six settings are those of the item: numbers rounded and clamped,
\* the vector and the lock as stored.
SettingsOf(item) ==
    /\ LoadedFrom(Get(item, Key.pixelsAcross), 5, 400, pixelsAcross)
    /\ genesisX.t = "number"
    /\ RoundedFrom(Get(item, Key.genesisX), genesisX.n)
    /\ genesisY.t = "number"
    /\ RoundedFrom(Get(item, Key.genesisY), genesisY.n)
    /\ LoadedFrom(Get(item, Key.zoom), 1, 64, zoom)
    /\ DOMAIN paletteEnabled = PaletteIdx
    /\ \A i \in PaletteIdx :
          paletteEnabled[i] = (Get(item, Key.paletteEnabled).members[i + 1].n = 1)
    /\ lockPalette = (Get(item, Key.lockPalette).n = 1)

\* C30: when the store holds an item of valid values at startup, then once
\* the load effect and the save effect have run and the render after them
\* has settled, pixelsAcross, the origin, zoom, the enabled vector and the
\* palette lock are the item's values, rounded and clamped, and the store
\* holds them, although the save effect of the first render wrote the
\* defaults in between.
C30_StartupKeepsStored ==
    /\ \A item \in StartupItems :
          (store = [read |-> FALSE, ok |-> TRUE, data |-> item]) =>
             [](store.read /\ ~queued.pending => SettingsOf(item) /\ StoreCurrent)
    /\ [][MountEffects => SettingsDefault' /\ StoreCurrent']_vars

\* C30 case: the startup has settled from an item with pixelsAcross 3.4,
\* origin (6.5, -3.5), zoom 100, every colour enabled and the lock set.
C30_Witness ==
    /\ store.read
    /\ ~queued.pending
    /\ pixelsAcross = 5
    /\ genesisX = JsNumber(7)
    /\ genesisY = JsNumber(-3)
    /\ zoom = 64
    /\ \A i \in PaletteIdx : paletteEnabled[i]
    /\ lockPalette
    /\ StoreCurrent

\* C30 case: the save effect of the first render has written the defaults
\* over the item, and the item's values wait for the render.
C30_WitnessBetween ==
    /\ queued.pending
    /\ queued.pixelsAcross = 5
    /\ queued.zoom = 64
    /\ queued.lockPalette
    /\ SettingsDefault
    /\ Get(store.data, Key.pixelsAcross) = JsonNumber(100, 1)
    /\ Get(store.data, Key.zoom) = JsonNumber(8, 1)
=============================================================================
